---- MODULE Spec2Model ----
(***************************************************************************)
(* Reconcilers of the webmesh operator: the Mesh reconciler (two revisions *)
(* of it), the NodeGroup reconciler with its in-cluster and Google Cloud   *)
(* branches and its teardown, and the helpers they share.  A reconcile     *)
(* invocation is one action; the calls it makes on the object store and on *)
(* the cloud API are recorded, in order, in the record of the invocation.  *)
(***************************************************************************)
EXTENDS Integers, Sequences, FiniteSets, TLC

VARIABLES
    meshRev,     \* which revision of MeshReconciler.Reconcile is deployed
    mesh,        \* the Mesh object (the fields of its spec the reconcilers read)
    lbSvc,       \* the fronting Service of the public bootstrap group
    adminCert,   \* the admin certificate Secret
    mres,        \* record of the Mesh reconcile invocation that just returned
    meshQueued,  \* a reconcile request for the Mesh is in the work queue
    group,       \* the NodeGroup object under reconcile
    kids,        \* the child objects of the NodeGroup in the store and the cloud
    nres,        \* record of the NodeGroup reconcile invocation that just returned
    naming,      \* a call of the naming functions: its arguments and its results
    render,      \* calls of nodeconfig.New: the Options of the caller and the results
    merging,     \* a call of NodeGroupConfig.Merge: its operands and its result
    proxy,       \* a call of NewNodeGroupLBConfigMap: its arguments and its result
    owned,       \* the objects built for a NodeGroup, with their metadata
    podspec,     \* a call of NewNodeGroupPod: the containers given and the pod
    admission,   \* a NodeGroup on its way through the webhooks to the reconciler
    hook,        \* the NodeGroup webhook: its cached identity, the stored object, the last request
    meshHook,    \* the Mesh webhook: the stored Mesh and the last request
    bootstrap,   \* Mesh.BootstrapGroups called on its own: the Mesh before and after, the groups
    lbLookup     \* getLBExternalIPs called on its own: the Service, the list, the error

vars == <<meshRev, mesh, lbSvc, adminCert, mres, meshQueued, group, kids, nres, naming,
          render, merging, proxy, owned, podspec, admission, hook, meshHook, bootstrap, lbLookup>>

\* the calls of functions on their own
pureVars == <<render, merging, proxy, owned, podspec, admission, hook, meshHook, bootstrap, lbLookup>>

meshVars == <<meshRev, mesh, adminCert, mres, meshQueued>>
groupVars == <<group, kids, nres>>

-----------------------------------------------------------------------------
(* Bounds of the model *)

\* pieces of an object name given to the naming functions
MaxNameLen == 3
\* store and cloud calls of one invocation that a fault may hit: 0 is "no fault"
MaxCalls == 12
\* replicas of a NodeGroup
MaxReplicas == 2
\* tunnel endpoints in the list given to nodeconfig.New
MaxEndpoints == 2
\* bootstrap servers in the map given to nodeconfig.New
MaxPeers == 2
\* calls of nodeconfig.New with the same Options
MaxRenders == 2
\* fields that are set in an operand of NodeGroupConfig.Merge
MaxSetFields == 3
\* additional containers of a NodeGroup
MaxSidecars == 1
\* admission requests in one behaviour of the webhook specifications
MaxRequests == 3

-----------------------------------------------------------------------------
(* Errors: an error is the chain of its wrapped messages, outermost first *)

Nil == <<>>
ErrLBNotReady == "load balancer not ready"
NotFound == "not found"
StoreFailure == "store failure"
NilDeref == "nil pointer dereference"

Wrap(msg, err) == <<msg>> \o err
ErrorsIs(err, target) == \E i \in DOMAIN err : err[i] = target
\* mutant: every error of a lookup is taken for "not found"
IgnoreAnyError(err) == Nil
\* mutant: a lookup that found nothing is an error like any other
IgnoreNothing(err) == err
\* client.IgnoreNotFound
IgnoreNotFound(err) == IF err = <<NotFound>> THEN Nil ELSE err

-----------------------------------------------------------------------------
(* Names: a name is the sequence of its pieces.  A piece is a word, a number or *)
(* a single character, "-" is always a piece of its own and no word can be     *)
(* spelled with the single characters, so that two object names are the same   *)
(* string exactly when they are the same sequence.                             *)

Itoa(i) == ToString(i)
\* mutant: the group name is never taken to carry the mesh name already
HasPrefixNever(s, p) == FALSE
\* strings.HasPrefix
HasPrefix(s, p) == Len(s) >= Len(p) /\ SubSeq(s, 1, Len(p)) = p

MeshName == <<"mesh">>
MeshAdminCertName(m) == m \o <<"-", "admin">>
MeshAdminConfigName(m) == m \o <<"-", "admin", "-", "config">>
MeshBootstrapGroupName(m) == m \o <<"-", "bootstrap">>
MeshBootstrapLBGroupName(m) == m \o <<"-", "bootstrap", "-", "lb">>
MeshNodeGroupStatefulSetName(m, g) == IF HasPrefix(g, m) THEN g ELSE m \o <<"-">> \o g
MeshNodeGroupPodName(m, g, i) == MeshNodeGroupStatefulSetName(m, g) \o <<"-", Itoa(i)>>
MeshNodeGroupLBName(m, g) == MeshNodeGroupStatefulSetName(m, g) \o <<"-", "public">>
MeshNodeGroupHeadlessServiceName(m, g) == MeshNodeGroupStatefulSetName(m, g)
MeshNodeGroupHeadlessServiceFQDN(m, g) ==
    MeshNodeGroupHeadlessServiceName(m, g) \o <<".ns.svc.cluster.local">>
MeshNodeCertName(m, g, i) == MeshNodeGroupPodName(m, g, i)

\* fmt.Sprintf("%s:%d", host, port)
HostPort(host, port) == host \o <<":", Itoa(port)>>

-----------------------------------------------------------------------------
(* Program constants *)

DefaultRaftPort == 9443
DefaultGRPCPort == 8443
DefaultWireGuardPort == 51820
MeshRequeueSeconds == 3
ClusterRequeueSeconds == 5
CloudRequeueSeconds == 3

-----------------------------------------------------------------------------
(* ctrl.Result and the record of an invocation *)

EmptyResult == [requeue |-> FALSE, after |-> 0]
RequeueAfter(secs) == [requeue |-> FALSE, after |-> secs]
RequeueTrueAfter(secs) == [requeue |-> TRUE, after |-> secs]

NoInvocation ==
    [done |-> FALSE, res |-> EmptyResult, err |-> Nil, panicked |-> FALSE, ops |-> <<>>]

\* a call on the store or the cloud API, as recorded with the error it returned
Op(verb, kind, name, val, err) ==
    [verb |-> verb, kind |-> kind, name |-> name, val |-> val, err |-> err]

\* the running invocation: calls made so far, and the error of the last call
Ctx0 == [n |-> 0, ops |-> <<>>, err |-> Nil]

\* One call.  It fails with a store failure when it is the failAt-th call of the
\* invocation, with `natural` otherwise (Nil, or not-found for a Get of an
\* absent object).
Call(c, failAt, verb, kind, name, val, natural) ==
    LET e == IF c.n + 1 = failAt THEN <<StoreFailure>> ELSE natural
    IN  [n |-> c.n + 1,
         ops |-> Append(c.ops, Op(verb, kind, name, val, e)),
         err |-> e]

\* sequencing: evaluate x once, then go on with its value
Then(x, F(_)) == CHOOSE r \in {F(v) : v \in {x}} : TRUE

Return(c, res, err) ==
    [done |-> TRUE, res |-> res, err |-> err, panicked |-> FALSE, ops |-> c.ops]
Panic(c) ==
    [done |-> TRUE, res |-> EmptyResult, err |-> <<NilDeref>>, panicked |-> TRUE,
     ops |-> c.ops]

\* an object to apply
Obj(kind, name, val) == [kind |-> kind, name |-> name, val |-> val]

RECURSIVE ApplyKeepGoing(_, _, _)
\* mutant: a failed patch is dropped and the loop goes on
ApplyKeepGoing(c, failAt, objs) ==
    IF objs = <<>> THEN [c EXCEPT !.err = Nil]
    ELSE Then(Call(c, failAt, "apply", Head(objs).kind, Head(objs).name, Head(objs).val, Nil),
              LAMBDA c1 : ApplyKeepGoing(c1, failAt, Tail(objs)))

\* resources.Apply: patch each object in order, stop at the first failure
RECURSIVE Apply(_, _, _)
Apply(c, failAt, objs) ==
    IF objs = <<>> THEN [c EXCEPT !.err = Nil]
    ELSE Then(Call(c, failAt, "apply", Head(objs).kind, Head(objs).name, Head(objs).val, Nil),
              LAMBDA c1 : IF c1.err # Nil
                          THEN [c1 EXCEPT !.err = Wrap("failed to apply", c1.err)]
                          ELSE Apply(c1, failAt, Tail(objs)))

-----------------------------------------------------------------------------
(* Addresses (net/netip) *)

PubA == "34.1.2.3"
PubB == "35.4.5.6"
PubV6 == "2001:db8::1"
Priv == "10.96.0.10"
ParseAddrOK(a) == a \in {PubA, PubB, PubV6, Priv}
IsPrivate(a) == a = Priv

-----------------------------------------------------------------------------
(* Services *)

NoService == [exists |-> FALSE, type |-> "", ingress |-> <<>>, clusterIPs |-> <<>>]
Svc(type, ingress, cips) ==
    [exists |-> TRUE, type |-> type, ingress |-> ingress, clusterIPs |-> cips]

\* the states a fronting Service is observed in
LBStates ==
    {NoService}
    \cup {Svc("LoadBalancer", i, <<Priv>>) : i \in {<<>>, <<"">>, <<PubA>>, <<PubB, PubA>>}}
    \cup {Svc("LoadBalancer", i, <<PubV6>>) : i \in {<<>>, <<PubA>>}}
    \cup {Svc("ClusterIP", <<>>, c) : c \in {<<Priv>>, <<PubV6>>, <<"None">>}}
    \cup {Svc("NodePort", <<>>, <<Priv>>), Svc("ExternalName", <<>>, <<>>)}

\* mutant: the ingress loop without the check for an entry that has no IP
IngressIPsUnchecked(ingress) == [ips |-> ingress, err |-> Nil]

RECURSIVE IngressIPs(_)
\* the ingress loop: ErrLBNotReady on the first entry without an IP
IngressIPs(ingress) ==
    IF ingress = <<>> THEN [ips |-> <<>>, err |-> Nil]
    ELSE IF Head(ingress) = "" THEN [ips |-> <<>>, err |-> <<ErrLBNotReady>>]
    ELSE LET r == IngressIPs(Tail(ingress))
         IN  IF r.err # Nil THEN r ELSE [ips |-> <<Head(ingress)>> \o r.ips, err |-> Nil]

RECURSIVE PublicClusterIPs(_)
\* the cluster-IP loop: parse each, keep the ones that are not private
PublicClusterIPs(cips) ==
    IF cips = <<>> THEN [ips |-> <<>>, err |-> Nil]
    ELSE IF ~ParseAddrOK(Head(cips)) THEN [ips |-> <<>>, err |-> <<"parse cluster IP">>]
    ELSE LET r == PublicClusterIPs(Tail(cips))
         IN  IF r.err # Nil THEN r
             ELSE [ips |-> (IF IsPrivate(Head(cips)) THEN <<>> ELSE <<Head(cips)>>) \o r.ips,
                   err |-> Nil]

ClusterIPOf(svc) == IF svc.clusterIPs = <<>> THEN "" ELSE svc.clusterIPs[1]

\* the switch on the Service type, after the Service was fetched
ExternalIPsOf(svc) ==
    LET ready(ips) == IF ips = <<>> THEN [ips |-> <<>>, err |-> <<ErrLBNotReady>>]
                      ELSE [ips |-> ips, err |-> Nil]
    IN  CASE svc.type = "LoadBalancer" ->
                IF svc.ingress = <<>> THEN [ips |-> <<>>, err |-> <<ErrLBNotReady>>]
                ELSE LET i == IngressIPs(svc.ingress)
                         p == PublicClusterIPs(svc.clusterIPs)
                     IN  IF i.err # Nil THEN i
                         ELSE IF p.err # Nil THEN p
                         ELSE ready(i.ips \o p.ips)
          [] svc.type = "NodePort" -> [ips |-> <<>>, err |-> <<"node port not supported">>]
          [] svc.type = "ClusterIP" ->
                LET p == PublicClusterIPs(svc.clusterIPs)
                IN  IF p.err # Nil THEN p
                    ELSE IF ~ParseAddrOK(ClusterIPOf(svc))
                         THEN [ips |-> <<>>, err |-> <<"parse cluster IP">>]
                    ELSE ready(p.ips \o (IF IsPrivate(ClusterIPOf(svc)) THEN <<>>
                                         ELSE <<ClusterIPOf(svc)>>))
          [] OTHER -> [ips |-> <<>>, err |-> <<"service has unknown type">>]

\* getLBExternalIPs: fetch the fronting Service of group g, then read its addresses
getLBExternalIPs(c, failAt, g, svc) ==
    Then(Call(c, failAt, "get", "Service", MeshNodeGroupLBName(MeshName, g), <<>>,
              IF svc.exists THEN Nil ELSE <<NotFound>>),
         LAMBDA c1 :
            IF c1.err # Nil
            THEN [c |-> c1, ips |-> <<>>, err |-> Wrap("fetch load balancer service", c1.err)]
            ELSE [c |-> c1, ips |-> ExternalIPsOf(svc).ips, err |-> ExternalIPsOf(svc).err])
-----------------------------------------------------------------------------
(* Secrets issued by the certificate collaborator *)

TLSKeys == {"tls.crt", "tls.key", "ca.crt"}

\* Data[key] is "absent" when the key is not in the map, "" when it is empty
NoSecret == [exists |-> FALSE, data |-> [k \in TLSKeys |-> "absent"]]
Secret(d) == [exists |-> TRUE, data |-> d]
FullData == [k \in TLSKeys |-> "PEM"]

\* the states the admin certificate Secret is observed in
CertStates ==
    {NoSecret, Secret(FullData), Secret([k \in TLSKeys |-> "absent"])}
    \cup {Secret([FullData EXCEPT ![k] = v]) : k \in TLSKeys, v \in {"absent", ""}}

\* mutant: the loop accepts a key that is present but empty
SecretMissingKey(secret) == \E k \in TLSKeys : secret.data[k] = "absent"

\* the loop over the three keys: data, ok := secret.Data[key]; !ok || len(data) == 0
SecretMissingData(secret) ==
    \E k \in TLSKeys : secret.data[k] = "absent" \/ secret.data[k] = ""

-----------------------------------------------------------------------------
(* The Mesh and the bootstrap groups it synthesizes *)

\* the Mesh objects of the model: Spec.Issuer.Create, and Spec.Bootstrap.Cluster.Service
\* (exposed: the pointer is set) with its GRPCPort
Meshes ==
    {[exposed |-> e, grpcPort |-> p.port, issuerCreate |-> p.issuer] :
        e \in BOOLEAN,
        p \in {[port |-> DefaultGRPCPort, issuer |-> TRUE], [port |-> 9000, issuer |-> FALSE]}}

\* Mesh.BootstrapGroups: the bootstrap group, never exposed, and behind it the
\* load-balancer group when the Mesh declares a Service
BootstrapGroups(m) ==
    LET bootstrapGroup ==
            [name |-> MeshBootstrapGroupName(MeshName), service |-> FALSE,
             grpcPort |-> m.grpcPort,
             bootstrapAnnotation |-> TRUE, bootstrapLabel |-> TRUE, cluster |-> TRUE]
        lbGroup ==
            [bootstrapGroup EXCEPT !.name = MeshBootstrapLBGroupName(MeshName),
                                   !.bootstrapAnnotation = FALSE,
                                   !.service = TRUE]
    IN  IF m.exposed THEN <<bootstrapGroup, lbGroup>> ELSE <<bootstrapGroup>>

\* the first batch of a Mesh reconcile: issuer chain, admin certificate, groups
MeshToApply(m) ==
    (IF m.issuerCreate
     THEN <<Obj("Issuer", MeshName \o <<"-", "self", "-", "signer">>, <<>>),
            Obj("Certificate", MeshName \o <<"-", "ca">>, <<>>),
            Obj("Issuer", MeshName \o <<"-", "ca">>, <<>>)>>
     ELSE <<>>)
    \o <<Obj("Certificate", MeshAdminCertName(MeshName), <<>>)>>
    \o [i \in 1..Len(BootstrapGroups(m)) |-> Obj("NodeGroup", BootstrapGroups(m)[i].name, <<>>)]

\* the first bootstrap group with Spec.Cluster.Service set: its index, or 0
PublicBootstrap(groups) ==
    LET idx == {i \in 1..Len(groups) : groups[i].cluster /\ groups[i].service}
    IN  IF idx = {} THEN 0 ELSE CHOOSE i \in idx : \A j \in idx : i <= j

\* the Get of the Mesh (or of the Mesh of a NodeGroup), which is in the store
GetMesh(c, failAt) == Call(c, failAt, "get", "Mesh", MeshName, <<>>, Nil)

GetAdminCert(c, failAt, cert) ==
    Call(c, failAt, "get", "Secret", MeshAdminCertName(MeshName), <<>>,
         IF cert.exists THEN Nil ELSE <<NotFound>>)

\* mutant: the server entry is rendered from the last address, not the first
ApplyAdminConfigLastIP(c, failAt, m, ips) ==
    Then(Call(c, failAt, "apply", "Secret", MeshAdminConfigName(MeshName),
              HostPort(<<ips[Len(ips)]>>, m.grpcPort), Nil),
         LAMBDA c1 : [done |-> TRUE, res |-> EmptyResult, err |-> c1.err,
                      panicked |-> FALSE, ops |-> c1.ops])

\* the tail of buildAdminConfig and of writeAdminConfig: render the admin
\* configuration for the first address and apply it as a Secret
ApplyAdminConfig(c, failAt, m, ips) ==
    Then(Apply(c, failAt,
               <<Obj("Secret", MeshAdminConfigName(MeshName), HostPort(<<ips[1]>>, m.grpcPort))>>),
         LAMBDA c1 : Return(c1, EmptyResult, c1.err))

\* MeshReconciler.buildAdminConfig (the revision that fetches the admin
\* certificate after the address)
buildAdminConfig(c, failAt, m, g, svc, cert) ==
    Then(getLBExternalIPs(c, failAt, g.name, svc), LAMBDA r :
        IF r.err # Nil
        THEN IF ErrorsIs(r.err, ErrLBNotReady)
             THEN Return(r.c, RequeueTrueAfter(MeshRequeueSeconds), Nil)
             ELSE Return(r.c, EmptyResult, r.err)
        ELSE Then(GetAdminCert(r.c, failAt, cert), LAMBDA c2 :
            IF c2.err # Nil THEN Return(c2, EmptyResult, c2.err)
            ELSE IF SecretMissingData(cert)
                 THEN Return(c2, RequeueTrueAfter(MeshRequeueSeconds), Nil)
            ELSE ApplyAdminConfig(c2, failAt, m, r.ips)))

\* MeshReconciler.Reconcile, the revision with buildAdminConfig
MeshReconcileA(failAt, m, svc, cert) ==
    LET bootstraps == BootstrapGroups(m)
        public == PublicBootstrap(bootstraps)
    IN  Then(GetMesh(Ctx0, failAt), LAMBDA c0 :
            IF c0.err # Nil THEN Return(c0, EmptyResult, IgnoreNotFound(c0.err))
            ELSE Then(Apply(c0, failAt, MeshToApply(m)), LAMBDA c1 :
                IF c1.err # Nil THEN Return(c1, EmptyResult, c1.err)
                ELSE IF public = 0 THEN Return(c1, EmptyResult, Nil)
                ELSE buildAdminConfig(c1, failAt, m, bootstraps[public], svc, cert)))

\* MeshReconciler.writeAdminConfig
writeAdminConfig(c, failAt, m, g, svc) ==
    Then(getLBExternalIPs(c, failAt, g.name, svc), LAMBDA r :
        IF r.err # Nil
        THEN IF ErrorsIs(r.err, ErrLBNotReady)
             THEN Return(r.c, RequeueTrueAfter(MeshRequeueSeconds), Nil)
             ELSE Return(r.c, EmptyResult, r.err)
        ELSE ApplyAdminConfig(r.c, failAt, m, r.ips))

\* MeshReconciler.writeManagerConfig: the server is the headless service of the
\* first bootstrap group with Spec.Bootstrap.Cluster.Service.GRPCPort; the caller
\* below stands for the nil dereference of Service when the Mesh declares none
writeManagerConfig(c, failAt, m, g) ==
    Apply(c, failAt,
          <<Obj("Secret", MeshName \o <<"-", "manager", "-", "config">>,
                HostPort(MeshNodeGroupHeadlessServiceFQDN(MeshName, g.name), m.grpcPort))>>)

\* MeshReconciler.Reconcile, the revision with writeManagerConfig and
\* writeAdminConfig: the admin certificate is fetched first
MeshReconcileB(failAt, m, svc, cert) ==
    LET bootstraps == BootstrapGroups(m)
        public == PublicBootstrap(bootstraps)
    IN  Then(GetMesh(Ctx0, failAt), LAMBDA c0 :
            IF c0.err # Nil THEN Return(c0, EmptyResult, IgnoreNotFound(c0.err))
            ELSE Then(Apply(c0, failAt, MeshToApply(m)), LAMBDA c1 :
                IF c1.err # Nil THEN Return(c1, EmptyResult, c1.err)
                ELSE Then(GetAdminCert(c1, failAt, cert), LAMBDA c2 :
                    IF c2.err # Nil THEN Return(c2, EmptyResult, c2.err)
                    ELSE IF SecretMissingData(cert)
                         THEN Return(c2, RequeueTrueAfter(MeshRequeueSeconds), Nil)
                    ELSE IF ~m.exposed THEN Panic(c2)
                    ELSE Then(writeManagerConfig(c2, failAt, m, bootstraps[1]), LAMBDA c3 :
                        IF c3.err # Nil THEN Return(c3, EmptyResult, c3.err)
                        ELSE IF public = 0 THEN Return(c3, EmptyResult, Nil)
                        ELSE writeAdminConfig(c3, failAt, m, bootstraps[public], svc)))))

\* the control loop puts the request back when the invocation returned an
\* error, panicked, or asked for a requeue
Requeued(r) == r.err # Nil \/ r.panicked \/ r.res.requeue \/ r.res.after > 0

-----------------------------------------------------------------------------
(* NodeGroups and their child objects *)

\* The NodeGroup objects of the model.  They run in the local cluster
\* (Spec.Cluster.Kubeconfig is nil) or in Google Cloud under workload identity
\* (Spec.GoogleCloud.Credentials is nil), and Spec.Replicas is set, as the
\* defaulting of NodeGroupSpec leaves it, and so is one of Spec.Cluster and
\* Spec.GoogleCloud.  The groups of more than one replica are the ones with a
\* volume claim spec.
NodeGroup(name, target, replicas, service, url, pvc, boot) ==
    [name |-> name, target |-> target, replicas |-> replicas,
     service |-> service, externalURL |-> url, wireGuardPort |-> 51000, pvc |-> pvc,
     bootstrapAnnotation |-> boot, bootstrapLabel |-> boot,
     deleting |-> FALSE, finalizer |-> FALSE]

WorkersName == <<"workers">>

NodeGroups ==
    {NodeGroup(WorkersName, "cluster", n, TRUE, "", n > 1, FALSE) : n \in 1..MaxReplicas}
    \cup {NodeGroup(WorkersName, "cluster", 1, FALSE, "", FALSE, FALSE),
          NodeGroup(WorkersName, "cluster", 1, TRUE, PubB, TRUE, FALSE)}
    \cup {NodeGroup(WorkersName, "cloud", n, FALSE, "", FALSE, FALSE) : n \in 1..MaxReplicas}
    \cup {NodeGroup(MeshBootstrapGroupName(MeshName), "cluster", n, FALSE, "", n > 1, TRUE) :
            n \in 1..MaxReplicas}

\* the object is gone from the store once it is deleted and holds no finalizer
Gone(g) == g.deleting /\ ~g.finalizer

\* the claim name in the volume of the pod of replica i
NodeGroupPVCName(m, g, i) == MeshNodeGroupPodName(m, g, i)
\* fmt.Sprintf("data-%s-%s-%d", group.Spec.Mesh.Name, group.Name, i)
DataPVCName(m, g, i) == <<"data", "-">> \o m \o <<"-">> \o g \o <<"-", Itoa(i)>>
\* fmt.Sprintf("%s-%d", group.GetName(), i)
InstanceName(g, i) == g \o <<"-", Itoa(i)>>

Replicas(g) == 0..(g.replicas - 1)
AllReplicas == 0..(MaxReplicas - 1)

NoPod == [exists |-> FALSE, conf |-> <<>>, spec |-> <<>>]
NoInstance == [exists |-> FALSE, description |-> <<>>]

\* the child objects before the first reconcile
NoKids ==
    [lb |-> NoService,
     pods |-> [i \in AllReplicas |-> NoPod],
     pvcs |-> {},
     instances |-> [i \in AllReplicas |-> NoInstance],
     nodeCert |-> NoSecret]

\* the fronting Service once it was applied: created, without an address, when
\* it was absent
AppliedLB(svc) == IF svc.exists THEN svc ELSE Svc("LoadBalancer", <<>>, <<Priv>>)

\* what a lookup returns to its caller: the running invocation, a value, an error
Out(c, val, err) == [c |-> c, val |-> val, err |-> err]

\* the NodeGroups the bootstrap selector matches, in the orders a List returns them;
\* none before the Mesh reconciler has applied them
BootstrapListings(m) ==
    LET groups == BootstrapGroups(m)
    IN  {<<>>, groups} \cup (IF Len(groups) = 2 THEN {<<groups[2], groups[1]>>} ELSE {})

\* getJoinServer(ctx, cli, mesh, thisGroup)
getJoinServer(c, failAt, items, thisGroup, svc) ==
    Then(Call(c, failAt, "list", "NodeGroup", <<"bootstrap">>, <<>>, Nil), LAMBDA c1 :
        IF c1.err # Nil THEN Out(c1, <<>>, Wrap("list bootstrap node group", c1.err))
        ELSE IF items = <<>> THEN Out(c1, <<>>, <<"no bootstrap node group found">>)
        ELSE LET others == {i \in DOMAIN items : items[i].name # thisGroup.name}
                 exposed == {i \in others : items[i].service}
                 first == CHOOSE i \in exposed : \A j \in exposed : i <= j
                 last == CHOOSE i \in others : \A j \in others : j <= i
             IN  IF exposed # {}
                 THEN Then(getLBExternalIPs(c1, failAt, items[first].name, svc), LAMBDA r :
                        IF r.err # Nil
                        THEN Out(r.c, <<>>, Wrap("get load balancer external IP", r.err))
                        ELSE Out(r.c, HostPort(<<r.ips[1]>>, items[first].grpcPort), Nil))
                 ELSE IF thisGroup.bootstrapLabel /\ others # {}
                 THEN Out(c1, HostPort(MeshNodeGroupHeadlessServiceFQDN(MeshName, items[last].name),
                                       DefaultGRPCPort), Nil)
                 ELSE Out(c1, <<>>, <<"no join server found">>))

\* getJoinServer(ctx, cli, mesh), which the in-cluster branch calls: the first
\* listed group, through its fronting Service when it declares one
getJoinServerOfMesh(c, failAt, items, svc) ==
    Then(Call(c, failAt, "list", "NodeGroup", <<"bootstrap">>, <<>>, Nil), LAMBDA c1 :
        IF c1.err # Nil THEN Out(c1, <<>>, Wrap("list bootstrap node group", c1.err))
        ELSE IF items = <<>> THEN Out(c1, <<>>, <<"no bootstrap node group found">>)
        ELSE IF items[1].service
             THEN Then(getLBExternalIPs(c1, failAt, items[1].name, svc), LAMBDA r :
                    IF r.err # Nil
                    THEN Out(r.c, <<>>, Wrap("get load balancer external IP", r.err))
                    ELSE Out(r.c, HostPort(<<r.ips[1]>>, items[1].grpcPort), Nil))
             ELSE Out(c1, HostPort(MeshNodeGroupHeadlessServiceFQDN(MeshName, items[1].name),
                                   DefaultGRPCPort), Nil))

-----------------------------------------------------------------------------
(* The in-cluster branch of the NodeGroup reconciler *)

Is4(a) == a \in {PubA, PubB, Priv}

\* Config.Checksum: the digest of the rendered configuration
Checksum(conf) == <<"sha256", conf>>

\* the pod template does not depend on anything the model changes
SpecChecksum(g) == <<"sha256", g.name, g.pvc>>

\* NodeGroupReconciler.buildClusterNodeConfig for replica `index`
buildClusterNodeConfig(c, failAt, g, items, svc, externalURLs, index) ==
    LET fqdn == MeshNodeGroupHeadlessServiceFQDN(MeshName, g.name)
        isBootstrap == g.bootstrapAnnotation
        internalEndpoint == <<"POD_NAME.">> \o fqdn \o <<":", Itoa(DefaultWireGuardPort + index)>>
        startPort == IF g.service THEN g.wireGuardPort ELSE DefaultWireGuardPort
        externalEndpoint(url) ==
            IF Is4(url) THEN <<url, ":", Itoa(startPort + index)>>
            ELSE <<"[", url, "]:", Itoa(startPort + index)>>
        conf(joinServer) ==
            [primaryEndpoint |->
                IF externalURLs # <<>> THEN <<externalURLs[1]>>
                ELSE IF isBootstrap THEN <<"POD_NAME.">> \o fqdn ELSE <<>>,
             wireguardEndpoints |->
                <<internalEndpoint>>
                \o [k \in DOMAIN externalURLs |-> externalEndpoint(externalURLs[k])],
             isBootstrap |-> isBootstrap,
             advertiseAddress |->
                IF isBootstrap /\ g.replicas > 1
                THEN <<"POD_NAME.">> \o fqdn \o <<":", Itoa(DefaultRaftPort)>> ELSE <<>>,
             bootstrapServers |->
                IF isBootstrap /\ g.replicas > 1
                THEN {<<MeshNodeGroupPodName(MeshName, g.name, i), "=",
                        MeshNodeGroupPodName(MeshName, g.name, i) \o <<".">> \o fqdn,
                        ":", Itoa(DefaultRaftPort)>> : i \in Replicas(g)}
                ELSE {},
             joinServer |-> joinServer,
             isPersistent |-> g.pvc,
             wireGuardListenPort |-> DefaultWireGuardPort + index]
    IN  IF \E k \in DOMAIN externalURLs : ~ParseAddrOK(externalURLs[k])
        THEN Out(c, <<>>, <<"parse address">>)
        ELSE IF isBootstrap THEN Out(c, conf(<<>>), Nil)
        ELSE Then(getJoinServerOfMesh(c, failAt, items, svc), LAMBDA j :
                IF j.err # Nil THEN Out(j.c, <<>>, Wrap("get join server", j.err))
                ELSE Out(j.c, conf(j.val), Nil))

\* group.GetAnnotations() is not nil: of the groups here, the bootstrap group
\* carries an annotation
HasAnnotations(g) == g.bootstrapAnnotation

\* resources.NewNodeGroupConfigMap: the rendered configuration under config.yaml,
\* its checksum as the config-checksum annotation
NewNodeGroupConfigMap(g, conf, i) ==
    Obj("ConfigMap", MeshNodeGroupPodName(MeshName, g.name, i),
        [checksum |-> Checksum(conf), data |-> conf])

\* The annotations of a config map are the map group.GetAnnotations() returns
\* when that is not nil: the config maps of the replicas then share one map, and
\* when they are applied it holds the checksum written last.
SharedAnnotations(g, confs, toApply) ==
    IF ~HasAnnotations(g) \/ confs = <<>> THEN toApply
    ELSE [n \in DOMAIN toApply |->
            IF toApply[n].kind = "ConfigMap"
               /\ \E i \in Replicas(g) :
                     toApply[n].name = MeshNodeGroupPodName(MeshName, g.name, i)
            THEN [toApply[n] EXCEPT !.val.checksum = Checksum(confs[Len(confs)])]
            ELSE toApply[n]]

\* the loop that renders the configuration of every replica and collects the
\* volume claims and config maps to apply: val is <<confs, toApply>>
RECURSIVE ClusterConfigs(_, _, _, _, _, _, _, _, _)
ClusterConfigs(c, failAt, g, items, svc, externalURLs, i, confs, toApply) ==
    IF i >= g.replicas THEN Out(c, <<confs, SharedAnnotations(g, confs, toApply)>>, Nil)
    ELSE Then(buildClusterNodeConfig(c, failAt, g, items, svc, externalURLs, i), LAMBDA b :
            IF b.err # Nil THEN Out(b.c, <<>>, b.err)
            ELSE ClusterConfigs(b.c, failAt, g, items, svc, externalURLs, i + 1,
                    Append(confs, b.val),
                    toApply
                    \o (IF g.pvc
                        THEN <<Obj("PersistentVolumeClaim",
                                   NodeGroupPVCName(MeshName, g.name, i), <<>>)>>
                        ELSE <<>>)
                    \o <<NewNodeGroupConfigMap(g, b.val, i)>>))

\* the pod of replica i as NewNodeGroupPod builds it
NewNodeGroupPod(g, confChecksum, i) ==
    [exists |-> TRUE, conf |-> confChecksum, spec |-> SpecChecksum(g)]

\* mutant: only the config checksum decides
PodChangedConfigOnly(existing, pod) == existing.conf # pod.conf

\* the pod is to be replaced: a checksum annotation is missing or differs
PodChanged(existing, pod) ==
    \/ existing.conf = <<>> \/ existing.spec = <<>>
    \/ existing.conf # pod.conf \/ existing.spec # pod.spec

\* the loop that handles the pods one by one
RECURSIVE ClusterPods(_, _, _, _, _, _)
ClusterPods(c, failAt, g, pods, confs, i) ==
    IF i >= g.replicas THEN Out(c, <<>>, Nil)
    ELSE LET name == MeshNodeGroupPodName(MeshName, g.name, i)
             pod == NewNodeGroupPod(g, Checksum(confs[i + 1]), i)
             applyPod(cx) ==
                Then(Apply(cx, failAt, <<Obj("Pod", name, pod)>>), LAMBDA c3 :
                    IF c3.err # Nil THEN Out(c3, <<>>, c3.err)
                    ELSE ClusterPods(c3, failAt, g, pods, confs, i + 1))
         IN  Then(Call(c, failAt, "get", "Pod", name, <<>>,
                       IF pods[i].exists THEN Nil ELSE <<NotFound>>), LAMBDA c1 :
                IF c1.err # Nil
                THEN IF IgnoreNotFound(c1.err) # Nil THEN Out(c1, <<>>, c1.err)
                     ELSE applyPod(c1)
                ELSE IF PodChanged(pods[i], pod)
                THEN Then(Call(c1, failAt, "delete", "Pod", name, <<>>, Nil), LAMBDA c2 :
                        IF c2.err # Nil THEN Out(c2, <<>>, c2.err) ELSE applyPod(c2))
                ELSE ClusterPods(c1, failAt, g, pods, confs, i + 1))

\* mutant: the fronting Service is left out of the objects applied up front
LBObjectsWithoutService(g) ==
    <<Obj("ConfigMap", MeshNodeGroupLBName(MeshName, g.name), <<>>),
      Obj("Deployment", MeshNodeGroupLBName(MeshName, g.name), <<>>)>>

\* the proxy config map, the proxy deployment and the fronting Service
LBObjects(g) ==
    <<Obj("ConfigMap", MeshNodeGroupLBName(MeshName, g.name), <<>>),
      Obj("Deployment", MeshNodeGroupLBName(MeshName, g.name), <<>>),
      Obj("Service", MeshNodeGroupLBName(MeshName, g.name), <<>>)>>

\* reconcileClusterNodeGroup from the headless service on; toApply holds what
\* the exposure step left to apply
ClusterChildren(c, failAt, g, k, items, svc, externalURLs, toApply) ==
    Then(ClusterConfigs(c, failAt, g, items, svc, externalURLs, 0, <<>>,
                        toApply \o <<Obj("Service",
                                         MeshNodeGroupHeadlessServiceName(MeshName, g.name),
                                         <<>>)>>),
         LAMBDA b :
            IF b.err # Nil THEN Out(b.c, EmptyResult, b.err)
            ELSE Then(Apply(b.c, failAt, b.val[2]), LAMBDA c2 :
                    IF c2.err # Nil THEN Out(c2, EmptyResult, c2.err)
                    ELSE Then(ClusterPods(c2, failAt, g, k.pods, b.val[1], 0), LAMBDA p :
                            Out(p.c, EmptyResult, p.err))))

\* NodeGroupReconciler.reconcileClusterNodeGroup
reconcileClusterNodeGroup(c, failAt, g, k, items, svc) ==
    IF ~g.service THEN ClusterChildren(c, failAt, g, k, items, svc, <<>>, <<>>)
    ELSE IF g.externalURL # ""
    THEN ClusterChildren(c, failAt, g, k, items, svc, <<g.externalURL>>, LBObjects(g))
    ELSE Then(Apply(c, failAt, LBObjects(g)), LAMBDA c1 :
            IF c1.err # Nil THEN Out(c1, EmptyResult, c1.err)
            ELSE Then(getLBExternalIPs(c1, failAt, g.name, AppliedLB(k.lb)), LAMBDA r :
                    IF r.err # Nil
                    THEN IF ErrorsIs(r.err, ErrLBNotReady)
                         THEN Out(r.c, RequeueAfter(ClusterRequeueSeconds), Nil)
                         ELSE Out(r.c, EmptyResult, r.err)
                    ELSE ClusterChildren(r.c, failAt, g, k, items, svc, r.ips, <<>>)))

-----------------------------------------------------------------------------
(* The Google Cloud branch of the NodeGroup reconciler *)

\* the loop over the three keys of a node certificate: _, ok := secret.Data[key]
NodeCertMissingKey(secret) == \E key \in TLSKeys : secret.data[key] = "absent"

\* fmt.Sprintf("%s %s", name, cloudconf.Checksum()): the cloud config is built
\* from the node configuration and the three entries of the certificate
Description(g, i, joinServer, secret) ==
    <<InstanceName(g.name, i), " ", <<"sha256", joinServer, secret.data>>>>

RECURSIVE CloudInstancesInPlace(_, _, _, _, _, _)
\* mutant: an instance whose description differs is inserted over, not deleted
CloudInstancesInPlace(c, failAt, g, k, joinServer, i) ==
    IF i >= g.replicas THEN Out(c, EmptyResult, Nil)
    ELSE LET name == InstanceName(g.name, i)
             description == Description(g, i, joinServer, k.nodeCert)
         IN  Then(Call(c, failAt, "get", "Secret", MeshNodeCertName(MeshName, g.name, i), <<>>,
                       IF k.nodeCert.exists THEN Nil ELSE <<NotFound>>), LAMBDA c1 :
                IF c1.err # Nil
                THEN Out(c1, EmptyResult, Wrap("get node certificate secret", c1.err))
                ELSE IF NodeCertMissingKey(k.nodeCert)
                THEN Out(c1, RequeueTrueAfter(CloudRequeueSeconds),
                         <<"node certificate secret missing key">>)
                ELSE Then(Call(c1, failAt, "get", "Instance", name, <<>>,
                               IF k.instances[i].exists THEN Nil ELSE <<NotFound>>), LAMBDA c2 :
                    IF c2.err = Nil /\ k.instances[i].description = description
                    THEN CloudInstancesInPlace(c2, failAt, g, k, joinServer, i + 1)
                    ELSE IF c2.err # Nil /\ IgnoreNotFound(c2.err) # Nil
                    THEN Out(c2, EmptyResult, Wrap("lookup existing instance", c2.err))
                    ELSE Then(Call(c2, failAt, "insert", "Instance", name, description, Nil),
                           LAMBDA c5 :
                             IF c5.err # Nil
                             THEN Out(c5, EmptyResult, Wrap("create instance", c5.err))
                             ELSE CloudInstancesInPlace(c5, failAt, g, k, joinServer, i + 1))))

\* the loop that ensures the instance of every replica
RECURSIVE CloudInstances(_, _, _, _, _, _)
CloudInstances(c, failAt, g, k, joinServer, i) ==
    IF i >= g.replicas THEN Out(c, EmptyResult, Nil)
    ELSE LET name == InstanceName(g.name, i)
             description == Description(g, i, joinServer, k.nodeCert)
             insert(cx) ==
                Then(Call(cx, failAt, "insert", "Instance", name, description, Nil), LAMBDA c5 :
                    IF c5.err # Nil
                    THEN Out(c5, EmptyResult, Wrap("create instance", c5.err))
                    ELSE Then(Call(c5, failAt, "wait", "Instance", name, <<>>, Nil), LAMBDA c6 :
                            IF c6.err # Nil
                            THEN Out(c6, EmptyResult, Wrap("wait for instance creation", c6.err))
                            ELSE CloudInstances(c6, failAt, g, k, joinServer, i + 1)))
         IN  Then(Call(c, failAt, "get", "Secret", MeshNodeCertName(MeshName, g.name, i), <<>>,
                       IF k.nodeCert.exists THEN Nil ELSE <<NotFound>>), LAMBDA c1 :
                IF c1.err # Nil
                THEN Out(c1, EmptyResult, Wrap("get node certificate secret", c1.err))
                ELSE IF NodeCertMissingKey(k.nodeCert)
                THEN Out(c1, RequeueTrueAfter(CloudRequeueSeconds),
                         <<"node certificate secret missing key">>)
                ELSE Then(Call(c1, failAt, "get", "Instance", name, <<>>,
                               IF k.instances[i].exists THEN Nil ELSE <<NotFound>>), LAMBDA c2 :
                    IF c2.err = Nil
                    THEN IF k.instances[i].description # description
                         THEN Then(Call(c2, failAt, "delete", "Instance", name, <<>>, Nil),
                                LAMBDA c3 :
                                  IF c3.err # Nil
                                  THEN Out(c3, EmptyResult, Wrap("delete instance", c3.err))
                                  ELSE Then(Call(c3, failAt, "wait", "Instance", name, <<>>, Nil),
                                         LAMBDA c4 :
                                           IF c4.err # Nil
                                           THEN Out(c4, EmptyResult,
                                                    Wrap("wait for instance delete", c4.err))
                                           ELSE insert(c4)))
                         ELSE CloudInstances(c2, failAt, g, k, joinServer, i + 1)
                    ELSE IF IgnoreNotFound(c2.err) # Nil
                    THEN Out(c2, EmptyResult, Wrap("lookup existing instance", c2.err))
                    ELSE insert(c2)))

\* NodeGroupReconciler.reconcileGoogleCloudNodeGroup
reconcileGoogleCloudNodeGroup(c, failAt, g, k, items, svc) ==
    Then(Call(c, failAt, "get", "ImageFamilyView", <<"ubuntu", "-", "2204", "-", "lts">>, <<>>, Nil), LAMBDA c1 :
        IF c1.err # Nil THEN Out(c1, EmptyResult, Wrap("get latest ubuntu image", c1.err))
        ELSE Then(Call(c1, failAt, "get", "Subnetwork", <<"subnet">>, <<>>, Nil), LAMBDA c2 :
            IF c2.err # Nil THEN Out(c2, EmptyResult, Wrap("get subnet", c2.err))
            ELSE Then(getJoinServer(c2, failAt, items, g, svc), LAMBDA j :
                IF j.err # Nil
                THEN IF ErrorsIs(j.err, ErrLBNotReady)
                     THEN Out(j.c, RequeueTrueAfter(CloudRequeueSeconds), Nil)
                     ELSE Out(j.c, EmptyResult, Wrap("get join server", j.err))
                ELSE CloudInstances(j.c, failAt, g, k, j.val, 0))))

RECURSIVE deleteGoogleCloudNodeGroupUnseen(_, _, _, _, _)
\* mutant: the instance is deleted whatever its lookup found
deleteGoogleCloudNodeGroupUnseen(c, failAt, g, k, i) ==
    IF i >= g.replicas THEN [c EXCEPT !.err = Nil]
    ELSE LET name == InstanceName(g.name, i)
         IN  Then(Call(c, failAt, "get", "Instance", name, <<>>,
                       IF k.instances[i].exists THEN Nil ELSE <<NotFound>>), LAMBDA c1 :
                Then(Call(c1, failAt, "delete", "Instance", name, <<>>, Nil), LAMBDA c2 :
                    IF c2.err # Nil
                    THEN [c2 EXCEPT !.err = Wrap("delete instance", c2.err)]
                    ELSE deleteGoogleCloudNodeGroupUnseen(c2, failAt, g, k, i + 1)))

\* NodeGroupReconciler.deleteGoogleCloudNodeGroup, from replica i on
RECURSIVE deleteGoogleCloudNodeGroup(_, _, _, _, _)
deleteGoogleCloudNodeGroup(c, failAt, g, k, i) ==
    IF i >= g.replicas THEN [c EXCEPT !.err = Nil]
    ELSE LET name == InstanceName(g.name, i)
         IN  Then(Call(c, failAt, "get", "Instance", name, <<>>,
                       IF k.instances[i].exists THEN Nil ELSE <<NotFound>>), LAMBDA c1 :
                IF c1.err = Nil
                THEN Then(Call(c1, failAt, "delete", "Instance", name, <<>>, Nil), LAMBDA c2 :
                        IF c2.err # Nil
                        THEN [c2 EXCEPT !.err = Wrap("delete instance", c2.err)]
                        ELSE Then(Call(c2, failAt, "wait", "Instance", name, <<>>, Nil),
                               LAMBDA c3 :
                                 IF c3.err # Nil
                                 THEN [c3 EXCEPT !.err =
                                          Wrap("wait for instance deletion", c3.err)]
                                 ELSE deleteGoogleCloudNodeGroup(c3, failAt, g, k, i + 1)))
                ELSE IF IgnoreNotFound(c1.err) # Nil
                THEN [c1 EXCEPT !.err = Wrap("failed to lookup existing instance", c1.err)]
                ELSE deleteGoogleCloudNodeGroup(c1, failAt, g, k, i + 1))

-----------------------------------------------------------------------------
(* NodeGroupReconciler.Reconcile and the teardown *)

\* the loop of reconcileDelete over the volume claims, from replica i on
RECURSIVE DeleteVolumeClaims(_, _, _, _, _)
DeleteVolumeClaims(c, failAt, g, k, i) ==
    IF i >= g.replicas THEN [c EXCEPT !.err = Nil]
    ELSE LET name == DataPVCName(MeshName, g.name, i)
         IN  Then(Call(c, failAt, "get", "PersistentVolumeClaim", name, <<>>,
                       IF name \in k.pvcs THEN Nil ELSE <<NotFound>>), LAMBDA c1 :
                IF c1.err # Nil
                THEN IF IgnoreNotFound(c1.err) # Nil
                     THEN [c1 EXCEPT !.err = Wrap("unable to fetch PVC", c1.err)]
                     ELSE DeleteVolumeClaims(c1, failAt, g, k, i + 1)
                ELSE Then(Call(c1, failAt, "delete", "PersistentVolumeClaim", name, <<>>, Nil),
                       LAMBDA c2 :
                         IF c2.err # Nil
                         THEN [c2 EXCEPT !.err = Wrap("unable to delete PVC", c2.err)]
                         ELSE DeleteVolumeClaims(c2, failAt, g, k, i + 1)))

\* NodeGroupReconciler.reconcileDelete
reconcileDelete(c, failAt, g, k) ==
    Then(IF g.target = "cloud" THEN deleteGoogleCloudNodeGroup(c, failAt, g, k, 0)
         ELSE IF g.target = "cluster" THEN DeleteVolumeClaims(c, failAt, g, k, 0)
         ELSE [c EXCEPT !.err = Nil],
         LAMBDA c1 :
            IF c1.err # Nil THEN c1
            ELSE Then(Call(c1, failAt, "update", "NodeGroup", g.name, <<"remove finalizer">>, Nil),
                   LAMBDA c2 :
                     IF c2.err # Nil
                     THEN [c2 EXCEPT !.err =
                              Wrap("failed to remove finalizer from node group", c2.err)]
                     ELSE c2))

\* mutant: the certificate of replica 0 only
NodeCertificateOfFirst(g) ==
    <<Obj("Certificate", MeshNodeCertName(MeshName, g.name, 0), <<>>)>>

\* the certificates of the replicas, in the order of their indices
NodeCertificates(g) ==
    [n \in 1..g.replicas |-> Obj("Certificate", MeshNodeCertName(MeshName, g.name, n - 1), <<>>)]

\* NodeGroupReconciler.Reconcile
NodeGroupReconcileOf(failAt, g, k, items, svc) ==
    Then(Call(Ctx0, failAt, "get", "NodeGroup", g.name, <<>>,
              IF Gone(g) THEN <<NotFound>> ELSE Nil), LAMBDA c1 :
        IF c1.err # Nil THEN Return(c1, EmptyResult, IgnoreNotFound(c1.err))
        ELSE IF g.deleting
        THEN Then(reconcileDelete(c1, failAt, g, k), LAMBDA d : Return(d, EmptyResult, d.err))
        ELSE Then(GetMesh(c1, failAt), LAMBDA c2 :
            IF c2.err # Nil THEN Return(c2, EmptyResult, c2.err)
            ELSE Then(Apply(c2, failAt, NodeCertificates(g)), LAMBDA c3 :
                IF c3.err # Nil THEN Return(c3, EmptyResult, c3.err)
                ELSE Then(IF g.target = "cloud"
                          THEN reconcileGoogleCloudNodeGroup(c3, failAt, g, k, items, svc)
                          ELSE IF g.target = "cluster"
                          THEN reconcileClusterNodeGroup(c3, failAt, g, k, items, svc)
                          ELSE Out(c3, EmptyResult, <<"no deployment configuration provided">>),
                          LAMBDA r :
                    IF r.err # Nil THEN Return(r.c, EmptyResult, r.err)
                    ELSE IF g.finalizer THEN Return(r.c, r.val, Nil)
                    ELSE Then(Call(r.c, failAt, "update", "NodeGroup", g.name,
                                   <<"add finalizer">>, Nil), LAMBDA c4 :
                            Return(c4, r.val,
                                   IF c4.err # Nil
                                   THEN Wrap("add finalizer to node group", c4.err)
                                   ELSE Nil))))))

\* the calls of an invocation that took effect
Done(ops, verb, kind, name) ==
    {n \in DOMAIN ops : ops[n].verb = verb /\ ops[n].kind = kind /\ ops[n].name = name
                        /\ ops[n].err = Nil}
Last(S) == CHOOSE n \in S : \A m \in S : m <= n

\* the NodeGroup after the calls of an invocation
GroupAfter(g, ops) ==
    LET updates == Done(ops, "update", "NodeGroup", g.name)
    IN  IF updates = {} THEN g
        ELSE [g EXCEPT !.finalizer = ops[Last(updates)].val = <<"add finalizer">>]

\* the child objects after the calls of an invocation
KidsAfter(g, k, ops) ==
    LET after(kind, name, old, gone, write) ==
            LET made == Done(ops, write, kind, name)
                removed == Done(ops, "delete", kind, name)
            IN  IF made # {} /\ (removed = {} \/ Last(removed) < Last(made))
                THEN ops[Last(made)].val
                ELSE IF removed # {} THEN gone ELSE old
        claims == {NodeGroupPVCName(MeshName, g.name, i) : i \in AllReplicas}
                  \cup {DataPVCName(MeshName, g.name, i) : i \in AllReplicas}
    IN  [lb |-> IF Done(ops, "apply", "Service", MeshNodeGroupLBName(MeshName, g.name)) # {}
                THEN AppliedLB(k.lb) ELSE k.lb,
         pods |-> [i \in AllReplicas |->
                     after("Pod", MeshNodeGroupPodName(MeshName, g.name, i), k.pods[i], NoPod,
                           "apply")],
         pvcs |-> {n \in claims \cup k.pvcs :
                     IF Done(ops, "delete", "PersistentVolumeClaim", n) # {} THEN FALSE
                     ELSE n \in k.pvcs \/ Done(ops, "apply", "PersistentVolumeClaim", n) # {}},
         instances |-> [i \in AllReplicas |->
                     LET d == after("Instance", InstanceName(g.name, i),
                                    k.instances[i].description, <<>>, "insert")
                     IN  IF d = <<>> THEN NoInstance ELSE [exists |-> TRUE, description |-> d]],
         nodeCert |-> k.nodeCert]

-----------------------------------------------------------------------------
(* Strings that are sorted: a string is the sequence of its characters *)

\* the byte of a character, which sort.Strings compares
Byte(ch) ==
    CASE ch = "," -> 44 [] ch = "-" -> 45 [] ch = "." -> 46
      [] ch = "0" -> 48 [] ch = "1" -> 49 [] ch = "2" -> 50 [] ch = "3" -> 51
      [] ch = "4" -> 52 [] ch = "5" -> 53 [] ch = "9" -> 57
      [] ch = ":" -> 58 [] ch = "=" -> 61 [] ch = "[" -> 91
      [] ch = "a" -> 97 [] ch = "s" -> 115 [] ch = "{" -> 123

\* a < b for Go strings
RECURSIVE StringLess(_, _)
StringLess(a, b) ==
    IF b = <<>> THEN FALSE
    ELSE IF a = <<>> THEN TRUE
    ELSE IF Byte(a[1]) # Byte(b[1]) THEN Byte(a[1]) < Byte(b[1])
    ELSE StringLess(Tail(a), Tail(b))

\* s with e put before its first element that is not less than e
RECURSIVE InsertSorted(_, _)
InsertSorted(s, e) ==
    IF s = <<>> THEN <<e>>
    ELSE IF StringLess(s[1], e) THEN <<s[1]>> \o InsertSorted(Tail(s), e)
    ELSE <<e>> \o s

\* mutant: the list is left in the order it came in
SortStringsNot(s) == s

\* sort.Strings, sort.Sort of a sort.StringSlice
RECURSIVE SortStrings(_)
SortStrings(s) ==
    IF s = <<>> THEN <<>> ELSE InsertSorted(SortStrings(Tail(s)), s[1])

\* strings.Join
RECURSIVE Join(_, _)
Join(elems, sep) ==
    IF elems = <<>> THEN <<>>
    ELSE IF Len(elems) = 1 THEN elems[1]
    ELSE elems[1] \o sep \o Join(Tail(elems), sep)

\* the one-to-one sequences over the set S: the orders a range over a map with
\* the keys S can take
Orders(S) ==
    {o \in [1..Cardinality(S) -> S] : \A i, j \in DOMAIN o : o[i] = o[j] => i = j}

-----------------------------------------------------------------------------
(* NodeGroupConfig and its merge.  A pointer is <<>> when it is nil and <<v>> *)
(* when it points at v.                                                       *)

DefaultDataDirectory == <<"/data">>
DefaultTLSDirectory == <<"/etc/webmesh/tls">>

DefaultSTUNServers == <<"stun:stun.l.google.com:19302">>

\* NodeMetricsConfig.Default
NodeMetricsConfigDefault(c) ==
    [listenAddress |-> IF c.listenAddress = "" THEN ":8080" ELSE c.listenAddress,
     path |-> IF c.path = "" THEN "/metrics" ELSE c.path]

\* NodeWebRTCConfig.Default
NodeWebRTCConfigDefault(c) ==
    [stunServers |-> IF Len(c.stunServers) = 0 THEN DefaultSTUNServers ELSE c.stunServers]

\* NodeMeshDNSConfig.Default
NodeMeshDNSConfigDefault(c) ==
    [listenUDP |-> IF c.listenUDP = "" THEN ":5353" ELSE c.listenUDP,
     listenTCP |-> IF c.listenTCP = "" THEN ":5353" ELSE c.listenTCP]

\* NodeServicesConfig.Default
NodeServicesConfigDefault(c) ==
    [c EXCEPT
        !.metrics = IF @ # <<>> THEN <<NodeMetricsConfigDefault(@[1])>> ELSE @,
        !.webRTC = IF @ # <<>> THEN <<NodeWebRTCConfigDefault(@[1])>> ELSE @,
        !.meshDNS = IF @ # <<>> THEN <<NodeMeshDNSConfigDefault(@[1])>> ELSE @]

\* NodeGroupConfig.Default
NodeGroupConfigDefault(c) ==
    [c EXCEPT
        !.logLevel = IF @ = "" THEN "info" ELSE @,
        !.services = IF @ # <<>> THEN <<NodeServicesConfigDefault(@[1])>> ELSE @]

\* the zero values of the structs
EmptyMetrics == [listenAddress |-> "", path |-> ""]
EmptyWebRTC == [stunServers |-> <<>>]
EmptyMeshDNS == [listenUDP |-> "", listenTCP |-> ""]
EmptyServices ==
    [metrics |-> <<>>, webRTC |-> <<>>, meshDNS |-> <<>>, enableLeaderProxy |-> FALSE,
     enableMeshAPI |-> FALSE, enablePeerDiscoveryAPI |-> FALSE]
EmptyConfig == [logLevel |-> "", noIPv6 |-> FALSE, services |-> <<>>]

\* NodeMetricsConfig.Merge: what the returned pointer points at
NodeMetricsConfigMerge(c, in) ==
    IF in = <<>> /\ c = <<>> THEN <<NodeMetricsConfigDefault(EmptyMetrics)>>
    ELSE IF in = <<>> THEN c
    ELSE IF c = <<>> THEN in
    ELSE <<[listenAddress |-> IF in[1].listenAddress # "" THEN in[1].listenAddress
                              ELSE c[1].listenAddress,
            path |-> IF in[1].path # "" THEN in[1].path ELSE c[1].path]>>

\* NodeWebRTCConfig.Merge
NodeWebRTCConfigMerge(c, in) ==
    IF in = <<>> /\ c = <<>> THEN <<NodeWebRTCConfigDefault(EmptyWebRTC)>>
    ELSE IF in = <<>> THEN c
    ELSE IF c = <<>> THEN in
    ELSE <<[stunServers |-> IF Len(in[1].stunServers) > 0 THEN in[1].stunServers
                            ELSE c[1].stunServers]>>

\* NodeMeshDNSConfig.Merge
NodeMeshDNSConfigMerge(c, in) ==
    IF in = <<>> /\ c = <<>> THEN <<NodeMeshDNSConfigDefault(EmptyMeshDNS)>>
    ELSE IF in = <<>> THEN c
    ELSE IF c = <<>> THEN in
    ELSE <<[listenUDP |-> IF in[1].listenUDP # "" THEN in[1].listenUDP ELSE c[1].listenUDP,
            listenTCP |-> IF in[1].listenTCP # "" THEN in[1].listenTCP
                          ELSE c[1].listenTCP]>>

\* mutant: a flag of the override replaces the flag of the base
OverrideFlag(base, override) == override

\* `if in.Flag { c.Flag = true }`
MergeFlag(base, override) == IF override THEN TRUE ELSE base

\* NodeServicesConfig.Merge
NodeServicesConfigMerge(c, in) ==
    IF in = <<>> /\ c = <<>> THEN <<NodeServicesConfigDefault(EmptyServices)>>
    ELSE IF in = <<>> THEN c
    ELSE IF c = <<>> THEN in
    ELSE <<[metrics |-> IF in[1].metrics # <<>>
                        THEN NodeMetricsConfigMerge(c[1].metrics, in[1].metrics)
                        ELSE c[1].metrics,
            webRTC |-> IF in[1].webRTC # <<>>
                       THEN NodeWebRTCConfigMerge(c[1].webRTC, in[1].webRTC)
                       ELSE c[1].webRTC,
            meshDNS |-> IF in[1].meshDNS # <<>>
                        THEN NodeMeshDNSConfigMerge(c[1].meshDNS, in[1].meshDNS)
                        ELSE c[1].meshDNS,
            enableLeaderProxy |->
                MergeFlag(c[1].enableLeaderProxy, in[1].enableLeaderProxy),
            enableMeshAPI |-> MergeFlag(c[1].enableMeshAPI, in[1].enableMeshAPI),
            enablePeerDiscoveryAPI |->
                MergeFlag(c[1].enablePeerDiscoveryAPI, in[1].enablePeerDiscoveryAPI)]>>

\* NodeGroupConfig.Merge: what the returned pointer points at
NodeGroupConfigMerge(c, in) ==
    IF in = <<>> /\ c = <<>> THEN <<NodeGroupConfigDefault(EmptyConfig)>>
    ELSE IF in = <<>> THEN c
    ELSE IF c = <<>> THEN in
    ELSE <<[logLevel |-> IF in[1].logLevel # "" THEN in[1].logLevel ELSE c[1].logLevel,
            noIPv6 |-> MergeFlag(c[1].noIPv6, in[1].noIPv6),
            services |->
                IF in[1].services # <<>>
                THEN NodeServicesConfigMerge(
                        IF c[1].services = <<>> THEN <<EmptyServices>> ELSE c[1].services,
                        in[1].services)
                ELSE c[1].services]>>

\* NodeGroupConfig.Merge writes through its receiver: the struct c points at
\* after the call
NodeGroupConfigMergeReceiver(c, in) ==
    IF in = <<>> \/ c = <<>> THEN c ELSE NodeGroupConfigMerge(c, in)

\* The receiver of the merge in nodeconfig.New is a copy of the struct in the
\* map of the Mesh, and the copy holds the same Services pointer: the merge of
\* the services writes through it.  The struct in the map after the call.
ConfigGroupAfterMerge(configGroup, in) ==
    IF in # <<>> /\ in[1].services # <<>> /\ configGroup.services # <<>>
    THEN [configGroup EXCEPT
             !.services = NodeServicesConfigMerge(configGroup.services, in[1].services)]
    ELSE configGroup

-----------------------------------------------------------------------------
(* nodeconfig.New: the rendering of the configuration of a node *)

\* json.Marshal and Options.MarshalTo of the node options: two encodings of
\* the same fields
MarshalJSON(nodeopts) == <<"json", nodeopts>>
MarshalTo(nodeopts) == <<"toml", nodeopts>>

\* what New returns, and what the arguments of the caller hold after the call
Rendered3(conf, err, opts) == [conf |-> conf, err |-> err, opts |-> opts]

\* the `name=addr` strings of the bootstrap servers, in the order `order` in
\* which the range over the map yields its keys
BootstrapServerEntries(servers, order) ==
    [k \in DOMAIN order |-> order[k] \o <<"=">> \o servers[order[k]]]

\* mutant: a name that is not in the map yields the zero configuration
LookupZeroValue(configGroups, name) ==
    [ok |-> TRUE,
     val |-> IF configGroups # <<>> /\ name \in DOMAIN configGroups[1]
             THEN configGroups[1][name] ELSE EmptyConfig]

\* `configGroup, ok := mesh.Spec.ConfigGroups[name]`, after the test for a nil
\* map: configGroups is <<>> for a nil map and <<m>> for the map m
LookupConfigGroup(configGroups, name) ==
    IF configGroups # <<>> /\ name \in DOMAIN configGroups[1]
    THEN [ok |-> TRUE, val |-> configGroups[1][name]]
    ELSE [ok |-> FALSE, val |-> EmptyConfig]

\* mutant: a node that does not bootstrap may come without a join server
JoinServerOptional(opts) == FALSE

\* `!opts.IsBootstrap` and `opts.JoinServer == ""`
JoinServerMissing(opts) == ~opts.isBootstrap /\ opts.joinServer = <<>>

\* nodeconfig.New; `order` is the order of the range over opts.bootstrapServers.
\* A group that names no configuration of the Mesh has a configuration of its
\* own (NodeGroup.Default), so groupcfg is never nil.
New(opts, order) ==
    LET grp == opts.group
        msh == opts.mesh
        named == grp.configGroup # ""
        lookup == LookupConfigGroup(msh.configGroups, grp.configGroup)
        groupcfg == IF named THEN NodeGroupConfigMerge(<<lookup.val>>, grp.config)
                    ELSE grp.config
        \* the struct in the map of the Mesh after configGroup.Merge(groupcfg)
        meshAfter ==
            IF named /\ msh.configGroups # <<>>
               /\ grp.configGroup \in DOMAIN msh.configGroups[1]
            THEN [msh EXCEPT !.configGroups[1][grp.configGroup] =
                                 ConfigGroupAfterMerge(@, grp.config)]
            ELSE msh
        \* sort.Strings sorts the slice of the caller
        endpoints == IF Len(opts.wireGuardEndpoints) > 0
                     THEN SortStrings(opts.wireGuardEndpoints)
                     ELSE opts.wireGuardEndpoints
        voters == IF opts.isBootstrap /\ Len(opts.bootstrapVoters) > 0
                  THEN SortStrings(opts.bootstrapVoters)
                  ELSE opts.bootstrapVoters
        after == [opts EXCEPT !.mesh = meshAfter, !.wireGuardEndpoints = endpoints,
                              !.bootstrapVoters = voters]
        services == groupcfg[1].services
        nodeopts ==
            [logLevel |-> groupcfg[1].logLevel,
             tlsCertFile |-> opts.certDir \o <<"/tls.crt">>,
             tlsKeyFile |-> opts.certDir \o <<"/tls.key">>,
             tlsCAFile |-> opts.certDir \o <<"/ca.crt">>,
             mtls |-> TRUE,
             verifyChainOnly |-> msh.issuerCreate,
             noIPv6 |-> groupcfg[1].noIPv6,
             zoneAwarenessID |-> grp.name,
             primaryEndpoint |-> opts.primaryEndpoint,
             wireGuardEndpoints |-> Join(endpoints, <<",">>),
             forceInterfaceName |-> TRUE,
             listenPort |-> IF opts.wireGuardListenPort > 0 THEN opts.wireGuardListenPort
                            ELSE DefaultWireGuardPort,
             bootstrapEnabled |-> opts.isBootstrap,
             bootstrapAdvertiseAddress |->
                IF opts.isBootstrap THEN opts.advertiseAddress ELSE <<>>,
             bootstrapVoters |-> IF opts.isBootstrap THEN Join(voters, <<",">>) ELSE <<>>,
             bootstrapServers |->
                IF opts.isBootstrap /\ DOMAIN opts.bootstrapServers # {}
                THEN Join(SortStrings(BootstrapServerEntries(opts.bootstrapServers, order)),
                          <<",">>)
                ELSE <<>>,
             joinAddress |-> IF opts.isBootstrap THEN <<>> ELSE opts.joinServer,
             leaveOnShutdown |-> ~opts.isBootstrap,
             dataDir |-> IF opts.isPersistent THEN DefaultDataDirectory ELSE <<>>,
             inMemory |-> ~opts.isPersistent,
             leaderProxy |->
                IF services # <<>> THEN opts.isBootstrap \/ services[1].enableLeaderProxy
                ELSE opts.isBootstrap,
             webRTC |-> services # <<>> /\ services[1].webRTC # <<>>,
             meshAPI |-> services # <<>> /\ services[1].enableMeshAPI,
             peerDiscovery |-> services # <<>> /\ services[1].enablePeerDiscoveryAPI,
             meshDNS |-> IF services # <<>> THEN services[1].meshDNS ELSE <<>>,
             metrics |-> IF services # <<>> THEN services[1].metrics ELSE <<>>,
             stunServers |->
                IF services # <<>> /\ services[1].webRTC # <<>>
                THEN services[1].webRTC[1].stunServers ELSE <<>>]
    IN  IF named /\ ~lookup.ok
        THEN Rendered3(<<>>, <<"config group not found">>, opts)
        ELSE IF JoinServerMissing(opts)
        THEN Rendered3(<<>>, <<"join server is required for non bootstrap node groups">>,
                       after)
        ELSE Rendered3(<<[options |-> nodeopts, rawjson |-> MarshalJSON(nodeopts),
                          raw |-> MarshalTo(nodeopts)]>>, Nil, after)

\* Config.Checksum of a rendered configuration
ConfigChecksum(conf) == <<"sha256", conf.rawjson>>

\* Config.Raw
ConfigRaw(conf) == conf.raw

\* the tunnel endpoints of a node: the one inside the cluster, which begins with
\* the template `{{ env "POD_NAME" }}`, and those of external addresses
InternalEndpoint == <<"{", "{", ":", "9">>
Endpoints == {InternalEndpoint, <<"3", "4", ":", "9">>, <<"[", "2", ":", ":", "1", "]", ":", "9">>}

\* the lists of at most n different endpoints
EndpointLists(n) ==
    {l \in UNION {[1..k -> Endpoints] : k \in 0..n} :
        \A i, j \in DOMAIN l : l[i] = l[j] => i = j}

\* the host names of the bootstrap peers and their addresses, as
\* buildClusterNodeConfig fills the map
PeerName(i) == <<"a", "-", Itoa(i)>>
BootstrapServerMaps(n) ==
    {[name \in {PeerName(i) : i \in I} |-> name \o <<".", "s", ":", "9">>] :
        I \in SUBSET (0..(n - 1))}

\* configurations for the groups of a Mesh, and configurations of a NodeGroup
\* after NodeGroup.Default
DebugPreset ==
    [logLevel |-> "debug", noIPv6 |-> FALSE,
     services |-> <<[EmptyServices EXCEPT
                        !.metrics = <<[listenAddress |-> ":9090", path |-> ""]>>,
                        !.enableMeshAPI = TRUE]>>]
PlainPreset == [logLevel |-> "", noIPv6 |-> TRUE, services |-> <<>>]
DefaultedConfig == NodeGroupConfigDefault(EmptyConfig)
ServicesConfig ==
    NodeGroupConfigDefault(
        [logLevel |-> "", noIPv6 |-> FALSE,
         services |-> <<[EmptyServices EXCEPT
                            !.metrics = <<EmptyMetrics>>, !.webRTC = <<EmptyWebRTC>>,
                            !.enableLeaderProxy = TRUE]>>])

\* Mesh.Spec.ConfigGroups: nil, or one configuration under the name "p"
ConfigGroupMaps ==
    {<<>>} \cup {<<[n \in {"p"} |-> c]>> : c \in {DebugPreset, PlainPreset}}

\* ConfigGroup and Config of a NodeGroup that went through NodeGroup.Default: a
\* group that names no configuration of the Mesh has one of its own
GroupConfigs ==
    {gc \in [configGroup : {"", "p", "q"},
             config : {<<>>, <<DefaultedConfig>>, <<ServicesConfig>>}] :
        gc.configGroup = "" => gc.config # <<>>}

\* the Options that nodeconfig.New is called with
RenderOptions ==
    {[mesh |-> [issuerCreate |-> TRUE, configGroups |-> cg],
      group |-> [name |-> WorkersName, configGroup |-> gc.configGroup, config |-> gc.config],
      advertiseAddress |-> IF b THEN <<"a", ":", "9">> ELSE <<>>,
      primaryEndpoint |-> IF e = <<>> THEN <<>> ELSE e[1],
      wireGuardEndpoints |-> e,
      wireGuardListenPort |-> DefaultWireGuardPort,
      isBootstrap |-> b,
      bootstrapServers |-> s,
      bootstrapVoters |-> <<>>,
      joinServer |-> j,
      isPersistent |-> b,
      certDir |-> DefaultTLSDirectory] :
        cg \in ConfigGroupMaps, gc \in GroupConfigs, e \in EndpointLists(MaxEndpoints),
        b \in BOOLEAN, s \in BootstrapServerMaps(MaxPeers),
        j \in {<<>>, <<"a", ":", "9">>}}

NoRender == [calls |-> 0, given |-> <<>>, opts |-> <<>>, out |-> <<>>, first |-> <<>>]

\* a call of nodeconfig.New with the Options the caller holds: the range over
\* the bootstrap servers takes the order `order`
Render(order) ==
    /\ render.calls < MaxRenders
    /\ LET r == New(render.opts, order)
       IN  render' = [render EXCEPT !.calls = @ + 1, !.opts = r.opts, !.out = r,
                                    !.first = IF render.calls = 0 THEN r ELSE @]
    /\ UNCHANGED <<merging, proxy, owned, podspec, admission, hook, meshHook, bootstrap, lbLookup, naming, meshVars, lbSvc, groupVars>>

-----------------------------------------------------------------------------
(* NodeGroupConfig.Merge, called on its own *)

\* the values of the fields of the configurations that are merged
MetricsConfigs == {<<>>, <<NodeMetricsConfigDefault(EmptyMetrics)>>,
                   <<[listenAddress |-> ":9090", path |-> ""]>>}
WebRTCConfigs == {<<>>, <<[stunServers |-> <<"stun:a">>]>>}
MeshDNSConfigs == {<<>>, <<[listenUDP |-> ":53", listenTCP |-> ""]>>}
LogLevels == {"", "info", "debug"}

\* how many fields of a configuration are set
Flag(b) == IF b THEN 1 ELSE 0
SetFieldsOfServices(s) ==
    Flag(s.metrics # <<>>) + Flag(s.webRTC # <<>>) + Flag(s.meshDNS # <<>>)
    + Flag(s.enableLeaderProxy) + Flag(s.enableMeshAPI) + Flag(s.enablePeerDiscoveryAPI)
SetFields(c) ==
    Flag(c.logLevel # "") + Flag(c.noIPv6)
    + (IF c.services = <<>> THEN 0 ELSE 1 + SetFieldsOfServices(c.services[1]))

\* pointers to a NodeGroupConfig with at most n fields set, and the nil pointer
NodeGroupConfigs(n) ==
    {<<>>} \cup
    {<<c>> : c \in
        {c \in [logLevel : LogLevels, noIPv6 : BOOLEAN,
                services : {<<>>} \cup
                    {<<s>> : s \in [metrics : MetricsConfigs, webRTC : WebRTCConfigs,
                                    meshDNS : MeshDNSConfigs, enableLeaderProxy : BOOLEAN,
                                    enableMeshAPI : BOOLEAN,
                                    enablePeerDiscoveryAPI : BOOLEAN]}] :
            SetFields(c) <= n}}

NoMerging == [done |-> FALSE, base |-> <<>>, override |-> <<>>, out |-> <<>>,
              receiver |-> <<>>]

\* base.Merge(override)
Merge ==
    /\ ~merging.done
    /\ merging' = [merging EXCEPT
                      !.done = TRUE,
                      !.out = NodeGroupConfigMerge(merging.base, merging.override),
                      !.receiver =
                          NodeGroupConfigMergeReceiver(merging.base, merging.override)]
    /\ UNCHANGED <<render, proxy, owned, podspec, admission, hook, meshHook, bootstrap, lbLookup, naming, meshVars, lbSvc, groupVars>>

-----------------------------------------------------------------------------
(* NewNodeGroupLBConfigMap: the configuration of the proxy in front of a group *)

MeshNodeClusterFQDN(m, g, i) ==
    MeshNodeGroupPodName(m, g, i) \o <<".">> \o MeshNodeGroupHeadlessServiceFQDN(m, g)

\* a router and the servers of a service of the proxy
Router(entryPoint, service, passthrough) ==
    [entryPoints |-> <<entryPoint>>, service |-> service, passthrough |-> passthrough]

\* the name `wireguard-%d` of the router and of the service of replica i
WireGuardRouterName(i) == <<"wireguard", "-", Itoa(i)>>
\* the name `wg%d` they have in the other revision
WGRouterName(i) == <<"wg", Itoa(i)>>

\* the YAML of a configuration and its checksums
EncodeYAML(conf) == <<"yaml", conf>>
Sha256(data) == <<"sha256", data>>
Crc32(data) == <<"crc32", data>>

\* NewNodeGroupLBConfigMap (resources/configmaps.go) for the group g of the
\* mesh m with n replicas
NewNodeGroupLBConfigMap(m, g, n) ==
    LET conf ==
            [tcpRouters |-> [r \in {<<"grpc">>} |-> Router(<<"grpc">>, <<"grpc">>, TRUE)],
             tcpServices |->
                [s \in {<<"grpc">>} |->
                    [k \in 1..n |->
                        HostPort(MeshNodeClusterFQDN(m, g, k - 1), DefaultGRPCPort)]],
             udpRouters |->
                [r \in {WireGuardRouterName(i) : i \in 0..(n - 1)} |-> Router(r, r, FALSE)],
             udpServices |->
                [s \in {WireGuardRouterName(i) : i \in 0..(n - 1)} |->
                    LET i == CHOOSE i \in 0..(n - 1) : WireGuardRouterName(i) = s
                    IN  <<HostPort(MeshNodeClusterFQDN(m, g, i), DefaultWireGuardPort + i)>>]]
    IN  [name |-> MeshNodeGroupLBName(m, g), conf |-> conf, data |-> EncodeYAML(conf),
         checksum |-> Sha256(EncodeYAML(conf))]

\* NewNodeGroupLBConfigMap of the other revision
NewNodeGroupLBConfigMapB(m, g, n) ==
    LET conf ==
            [tcpRouters |-> [r \in {<<"grpc">>} |-> Router(<<"grpc">>, <<"grpc">>, TRUE)],
             tcpServices |->
                [s \in {<<"grpc">>} |->
                    <<HostPort(MeshNodeGroupHeadlessServiceFQDN(m, g), DefaultGRPCPort)>>],
             udpRouters |->
                [r \in {WGRouterName(i) : i \in 0..(n - 1)} |-> Router(r, r, FALSE)],
             udpServices |->
                [s \in {WGRouterName(i) : i \in 0..(n - 1)} |->
                    LET i == CHOOSE i \in 0..(n - 1) : WGRouterName(i) = s
                    IN  <<HostPort(MeshNodeClusterFQDN(m, g, i), DefaultWireGuardPort)>>]]
    IN  [name |-> MeshNodeGroupLBName(m, g), conf |-> conf, data |-> EncodeYAML(conf),
         checksum |-> Crc32(EncodeYAML(conf))]

\* the port of the external WireGuard endpoint that replica i advertises:
\* startPort + index, startPort being Spec.Cluster.Service.WireGuardPort
ExternalEndpointPort(wireGuardPort, i) == wireGuardPort + i

ServicePort(name, port, targetPort, protocol) ==
    [name |-> name, port |-> port, targetPort |-> targetPort, protocol |-> protocol]

\* NewNodeGroupLBService (resources/services.go, the revision without an owner
\* argument): it selects the pods of the group and has two ports
NewNodeGroupLBService(wireGuardPort, n) ==
    [selector |-> "NodeGroupSelector",
     ports |-> {ServicePort(<<"grpc">>, DefaultGRPCPort, DefaultGRPCPort, "TCP"),
                ServicePort(<<"wireguard">>, wireGuardPort, DefaultWireGuardPort, "UDP")}]

\* NewNodeGroupLBService of the other revision: it selects the pods of the
\* proxy and has one port for each replica
NewNodeGroupLBServiceB(wireGuardPort, n) ==
    [selector |-> "NodeGroupLBSelector",
     ports |-> {ServicePort(<<"grpc">>, DefaultGRPCPort, DefaultGRPCPort, "TCP")}
               \cup {ServicePort(WireGuardRouterName(i), wireGuardPort + i,
                                 wireGuardPort + i, "UDP") : i \in 0..(n - 1)}]

\* NewNodeGroupLBDeployment (resources/deployments.go, the revision without an
\* owner argument): the ports of the proxy container by name
NewNodeGroupLBDeployment(n) ==
    [p \in {<<"grpc">>} \cup {WireGuardRouterName(i) : i \in 0..(n - 1)} |->
        IF p = <<"grpc">> THEN DefaultGRPCPort
        ELSE LET i == CHOOSE i \in 0..(n - 1) : WireGuardRouterName(i) = p
             IN  DefaultWireGuardPort + i]

\* NewNodeGroupLBDeployment of the other revision: the entry points
\* `--entrypoints.wg%d.address` of the proxy by name
NewNodeGroupLBDeploymentB(wireGuardPort, n) ==
    [p \in {<<"grpc">>} \cup {WGRouterName(i) : i \in 0..(n - 1)} |->
        IF p = <<"grpc">> THEN DefaultGRPCPort
        ELSE LET i == CHOOSE i \in 0..(n - 1) : WGRouterName(i) = p
             IN  wireGuardPort + i]

\* the values of Spec.Cluster.Service.WireGuardPort: the default and another
WireGuardPorts == {DefaultWireGuardPort, 51900}

NoProxy == [done |-> FALSE, rev |-> "A", mesh |-> <<>>, group |-> <<>>, replicas |-> 0,
            wireGuardPort |-> DefaultWireGuardPort, out |-> <<>>, service |-> <<>>,
            listen |-> <<>>, endpoints |-> <<>>]

\* the config map, the service and the deployment of the proxy are built for the
\* group proxy.group, and the external endpoints of its replicas
BuildLBConfigMap ==
    /\ ~proxy.done
    /\ proxy' = [proxy EXCEPT
                    !.done = TRUE,
                    !.out = IF proxy.rev = "A"
                            THEN NewNodeGroupLBConfigMap(proxy.mesh, proxy.group,
                                                         proxy.replicas)
                            ELSE NewNodeGroupLBConfigMapB(proxy.mesh, proxy.group,
                                                          proxy.replicas),
                    !.service = IF proxy.rev = "A"
                                THEN NewNodeGroupLBService(proxy.wireGuardPort, proxy.replicas)
                                ELSE NewNodeGroupLBServiceB(proxy.wireGuardPort,
                                                            proxy.replicas),
                    !.listen = IF proxy.rev = "A"
                               THEN NewNodeGroupLBDeployment(proxy.replicas)
                               ELSE NewNodeGroupLBDeploymentB(proxy.wireGuardPort,
                                                              proxy.replicas),
                    !.endpoints = [i \in 0..(proxy.replicas - 1) |->
                                      ExternalEndpointPort(proxy.wireGuardPort, i)]]
    /\ UNCHANGED <<render, merging, owned, podspec, admission, hook, meshHook, bootstrap, lbLookup, naming, meshVars, lbSvc, groupVars>>

-----------------------------------------------------------------------------
(* The metadata of the objects that are built for a NodeGroup *)

\* meshv1.OwnerReferences: one controller reference to obj
OwnerReferences(obj) ==
    <<[kind |-> obj.kind, name |-> obj.name, controller |-> TRUE,
       blockOwnerDeletion |-> TRUE]>>

MeshObject(m) == [kind |-> "Mesh", name |-> m]
NodeGroupObject(g) == [kind |-> "NodeGroup", name |-> g]

ObjectMeta(kind, name, ownerReferences) ==
    [kind |-> kind, name |-> name, ownerReferences |-> ownerReferences]

\* the ObjectMeta that each constructor called for a NodeGroup fills in
NodeCertificateMeta(m, g, i) ==
    ObjectMeta("Certificate", MeshNodeCertName(m, g, i), OwnerReferences(MeshObject(m)))
HeadlessServiceMeta(m, g) ==
    ObjectMeta("Service", MeshNodeGroupHeadlessServiceName(m, g),
               OwnerReferences(NodeGroupObject(g)))
LBServiceMeta(m, g) ==
    ObjectMeta("Service", MeshNodeGroupLBName(m, g), OwnerReferences(NodeGroupObject(g)))
LBDeploymentMeta(m, g) ==
    ObjectMeta("Deployment", MeshNodeGroupLBName(m, g), OwnerReferences(NodeGroupObject(g)))
LBConfigMapMeta(m, g) ==
    ObjectMeta("ConfigMap", MeshNodeGroupLBName(m, g), OwnerReferences(NodeGroupObject(g)))
ConfigMapMeta(m, g, i) ==
    ObjectMeta("ConfigMap", MeshNodeGroupPodName(m, g, i),
               OwnerReferences(NodeGroupObject(g)))
PodMeta(m, g, i) ==
    ObjectMeta("Pod", MeshNodeGroupPodName(m, g, i), OwnerReferences(NodeGroupObject(g)))

\* the objects NodeGroupReconciler builds for the in-cluster group g of the mesh
\* m with n replicas: the certificates, then what reconcileClusterNodeGroup adds
NodeGroupChildren(m, g, n, exposed) ==
    {NodeCertificateMeta(m, g, i) : i \in 0..(n - 1)}
    \cup (IF exposed THEN {LBConfigMapMeta(m, g), LBDeploymentMeta(m, g), LBServiceMeta(m, g)}
          ELSE {})
    \cup {HeadlessServiceMeta(m, g)}
    \cup {ConfigMapMeta(m, g, i) : i \in 0..(n - 1)}
    \cup {PodMeta(m, g, i) : i \in 0..(n - 1)}

\* the objects the revision of MeshReconciler.Reconcile that builds the children
\* of the bootstrap group itself applies for the group g: every one is owned by
\* the Mesh, and the replicas share one config map and one StatefulSet
MeshReconcilerChildren(m, g, n, exposed) ==
    LET owner == OwnerReferences(MeshObject(m))
    IN  {ObjectMeta("Service", MeshNodeGroupHeadlessServiceName(m, g), owner)}
        \cup {ObjectMeta("Certificate", MeshNodeCertName(m, g, i), owner) : i \in 0..(n - 1)}
        \cup {ObjectMeta("ConfigMap", MeshNodeGroupStatefulSetName(m, g), owner),
              ObjectMeta("StatefulSet", MeshNodeGroupStatefulSetName(m, g), owner)}
        \cup (IF exposed
              THEN {ObjectMeta("ConfigMap", MeshNodeGroupLBName(m, g), owner),
                    ObjectMeta("Deployment", MeshNodeGroupLBName(m, g), owner),
                    ObjectMeta("Service", MeshNodeGroupLBName(m, g), owner)}
              ELSE {})

NoOwned == [done |-> FALSE, by |-> "NodeGroupReconciler", mesh |-> <<>>, group |-> <<>>,
            replicas |-> 0, exposed |-> FALSE, objects |-> {}]

\* the objects of the group owned.group are built
BuildChildren ==
    /\ ~owned.done
    /\ owned' = [owned EXCEPT
                    !.done = TRUE,
                    !.objects =
                        IF owned.by = "NodeGroupReconciler"
                        THEN NodeGroupChildren(owned.mesh, owned.group, owned.replicas,
                                               owned.exposed)
                        ELSE MeshReconcilerChildren(owned.mesh, owned.group, owned.replicas,
                                                    owned.exposed)]
    /\ UNCHANGED <<render, merging, proxy, podspec, admission, hook, meshHook, bootstrap, lbLookup, naming, meshVars, lbSvc, groupVars>>

-----------------------------------------------------------------------------
(* NewNodeGroupPod: the containers of the pod of a replica.  A field that is *)
(* not set is <<>>, a field set to v is <<v>>.                               *)

SecurityContext(privileged, runAsNonRoot, runAsUser, add, drop, readOnly, seccomp) ==
    [privileged |-> privileged, runAsNonRoot |-> runAsNonRoot, runAsUser |-> runAsUser,
     add |-> add, drop |-> drop, readOnlyRootFilesystem |-> readOnly,
     seccompProfile |-> seccomp]

\* the container "node" of the pod
NodeContainer ==
    [name |-> "node",
     securityContext |->
        <<SecurityContext(<<TRUE>>, <<FALSE>>, <<0>>, {"NET_ADMIN", "NET_RAW", "SYS_MODULE"},
                          {}, <<>>, <<"RuntimeDefault">>)>>]

\* the PodSecurityContext of the pod
PodSecurityContext ==
    [runAsUser |-> <<65534>>, runAsGroup |-> <<65534>>, runAsNonRoot |-> <<TRUE>>,
     fsGroup |-> <<65534>>, seccompProfile |-> <<"RuntimeDefault">>]

\* the PodSpec of NewNodeGroupPod for a group with the additional containers
\* `additionalContainers`
NewNodeGroupPodSpec(additionalContainers) ==
    [containers |-> <<NodeContainer>> \o additionalContainers,
     securityContext |-> PodSecurityContext]

\* the containers a user may put in Spec.Cluster.AdditionalContainers
UserSecurityContexts ==
    {<<>>} \cup
    {<<SecurityContext(p, r, <<>>, a, d, f, s)>> :
        p \in {<<>>, <<TRUE>>, <<FALSE>>}, r \in {<<>>, <<TRUE>>, <<FALSE>>},
        a \in {{}, {"NET_ADMIN"}}, d \in {{}, {"ALL"}}, f \in {<<>>, <<TRUE>>},
        s \in {<<>>, <<"Unconfined">>}}
UserContainers == [name : {"envoy", "logger"}, securityContext : UserSecurityContexts]
AdditionalContainers(n) ==
    {l \in UNION {[1..k -> UserContainers] : k \in 0..n} :
        \A i, j \in DOMAIN l : l[i].name = l[j].name => i = j}

NoPodSpec == [done |-> FALSE, additional |-> <<>>, spec |-> <<>>]

\* the pod of a replica is built
BuildPod ==
    /\ ~podspec.done
    /\ podspec' = [podspec EXCEPT !.done = TRUE,
                                  !.spec = NewNodeGroupPodSpec(podspec.additional)]
    /\ UNCHANGED <<render, merging, proxy, owned, admission, hook, meshHook, bootstrap, lbLookup, naming, meshVars, lbSvc, groupVars>>

-----------------------------------------------------------------------------
(* The admission of a NodeGroup: the defaulting and the validating webhook, in *)
(* the two revisions of them, and the branch the reconciler takes.             *)

\* the fields of a NodeGroupSpec the webhooks read: a pointer field is TRUE
\* when it is set, replicas is 0 when the pointer is nil
NodeGroupSpecs ==
    [cluster : BOOLEAN, googleCloud : BOOLEAN, replicas : 0..MaxReplicas,
     configGroup : {"", "p"}, config : BOOLEAN]

\* `Ensure a default config`
DefaultConfig(spec) ==
    [spec EXCEPT !.config = IF spec.configGroup = "" /\ ~spec.config THEN TRUE ELSE @]

\* NodeGroup.Default of api/v1/nodegroup_webhook.go
NodeGroupDefault(spec) == [DefaultConfig(spec) EXCEPT !.cluster = TRUE]

\* NodeGroupSpec.Default, which NodeGroup.Default of the other revision calls
NodeGroupSpecDefault(spec) ==
    [DefaultConfig(spec) EXCEPT
        !.replicas = IF @ = 0 THEN 1 ELSE @,
        !.cluster = IF ~spec.cluster /\ ~spec.googleCloud THEN TRUE ELSE @]

\* nodeGroupValidator.ValidateCreate of api/v1/nodegroup_webhook.go
ValidateCreate(spec) == Nil

\* NodeGroupSpec.Validate, which ValidateCreate of the other revision calls
NodeGroupSpecValidate(spec) ==
    IF spec.cluster # spec.googleCloud THEN Nil ELSE <<"invalid spec">>

\* the branch of NodeGroupReconciler.Reconcile
Branch(spec) ==
    IF spec.googleCloud THEN "cloud" ELSE IF spec.cluster THEN "cluster" ELSE "none"

NoAdmission ==
    [rev |-> "A", stage |-> "none",
     declared |-> [cluster |-> FALSE, googleCloud |-> FALSE, replicas |-> 0,
                   configGroup |-> "", config |-> FALSE],
     spec |-> [cluster |-> FALSE, googleCloud |-> FALSE, replicas |-> 0,
               configGroup |-> "", config |-> FALSE],
     branch |-> "none"]

AdmissionUnchanged ==
    UNCHANGED <<render, merging, proxy, owned, podspec, hook, meshHook, bootstrap, lbLookup, naming, meshVars, lbSvc, groupVars>>

\* the mutating webhook
DefaultNodeGroup ==
    /\ admission.stage = "submitted"
    /\ admission' = [admission EXCEPT
                        !.stage = "defaulted",
                        !.spec = IF admission.rev = "A" THEN NodeGroupDefault(@)
                                 ELSE NodeGroupSpecDefault(@)]
    /\ AdmissionUnchanged

\* the validating webhook: the object is stored or the request is rejected
ValidateNodeGroup ==
    /\ admission.stage = "defaulted"
    /\ LET err == IF admission.rev = "A" THEN ValidateCreate(admission.spec)
                  ELSE NodeGroupSpecValidate(admission.spec)
       IN  admission' = [admission EXCEPT
                            !.stage = IF err = Nil THEN "admitted" ELSE "rejected"]
    /\ AdmissionUnchanged

\* NodeGroupReconciler.Reconcile reaches its branch for the stored object
DispatchNodeGroup ==
    /\ admission.stage = "admitted"
    /\ admission' = [admission EXCEPT !.stage = "reconciled",
                                      !.branch = Branch(admission.spec)]
    /\ AdmissionUnchanged

-----------------------------------------------------------------------------
(* Create and update requests for a NodeGroup: nodeGroupValidator in its two   *)
(* revisions, the children of the stored object and its teardown.              *)

\* the UID of the operator's service account, and that of another user
OperatorUID == "operator"
UserUIDs == {OperatorUID, "user"}

\* a NodeGroup as the validator sees it: the bootstrap annotation, the replica
\* count and whether Spec.Cluster.PVCSpec is set
NodeGroupObjects ==
    [bootstrap : BOOLEAN, replicas : 1..MaxReplicas, persistent : BOOLEAN,
     cluster : {TRUE}, googleCloud : {FALSE}]

\* the TokenReview of the operator's own bearer token: an error of the call,
\* not authenticated, or the operator's UID
TokenReviews ==
    { [err |-> <<"token review failed">>, authenticated |-> FALSE, uid |-> ""],
      [err |-> Nil, authenticated |-> FALSE, uid |-> ""],
      [err |-> Nil, authenticated |-> TRUE, uid |-> OperatorUID] }

\* nodeGroupValidator.ValidateUpdate of api/v1/nodegroup_webhook.go:
\* [err, localID], localID being the validator's cache after the call
ValidateUpdate(localID, old, new, uid, review) ==
    IF old.bootstrap THEN
        LET failed == localID = "" /\ (review.err # Nil \/ ~review.authenticated)
            id == IF localID = "" THEN review.uid ELSE localID
        IN  IF failed
            THEN [err |-> IF review.err # Nil THEN review.err
                          ELSE <<"unable to authenticate with API server">>,
                  localID |-> localID]
            ELSE IF uid # id
            THEN [err |-> <<"bootstrap node groups can only be mutated by the Mesh controller">>,
                  localID |-> id]
            ELSE [err |-> Nil, localID |-> id]
    ELSE [err |-> Nil, localID |-> localID]

\* nodeGroupValidator.ValidateUpdate of the other revision
ValidateUpdateSpec(localID, old, new, uid, review) ==
    [err |-> NodeGroupSpecValidate(new), localID |-> localID]

\* nodeGroupValidator.ValidateCreate of the other revision
ValidateCreateSpec(obj) == NodeGroupSpecValidate(obj)

NoRequest == [op |-> "none", uid |-> "", old |-> <<>>, new |-> <<>>, err |-> Nil]

NoHook ==
    [rev |-> "A", localID |-> "", stored |-> <<>>, requests |-> 0,
     last |-> NoRequest, children |-> {}, torn |-> <<>>]

HookUnchanged ==
    UNCHANGED <<render, merging, proxy, owned, podspec, admission, meshHook, bootstrap, lbLookup, naming, meshVars, lbSvc, groupVars>>

\* a create request: the object is stored when the validator returns no error
CreateNodeGroup(uid, obj) ==
    /\ hook.stored = <<>>
    /\ hook.torn = <<>>
    /\ hook.requests < MaxRequests
    /\ LET err == IF hook.rev = "A" THEN ValidateCreate(obj) ELSE ValidateCreateSpec(obj)
       IN  hook' = [hook EXCEPT
                      !.requests = @ + 1,
                      !.stored = IF err = Nil THEN <<obj>> ELSE @,
                      !.last = [op |-> "create", uid |-> uid, old |-> <<>>,
                                new |-> <<obj>>, err |-> err]]
    /\ HookUnchanged

\* an update request for the stored object
UpdateNodeGroup(uid, obj, review) ==
    /\ hook.stored # <<>>
    /\ hook.requests < MaxRequests
    /\ LET old == hook.stored[1]
           r == IF hook.rev = "A"
                THEN ValidateUpdate(hook.localID, old, obj, uid, review)
                ELSE ValidateUpdateSpec(hook.localID, old, obj, uid, review)
       IN  hook' = [hook EXCEPT
                      !.requests = @ + 1,
                      !.localID = r.localID,
                      !.stored = IF r.err = Nil THEN <<obj>> ELSE @,
                      !.last = [op |-> "update", uid |-> uid, old |-> <<old>>,
                                new |-> <<obj>>, err |-> r.err]]
    /\ HookUnchanged

\* the reconciler creates the children of the stored object: one pod, and one
\* volume claim when the group is persistent, for each replica
CreateChildren ==
    /\ hook.stored # <<>>
    /\ hook' = [hook EXCEPT !.children = @ \cup Replicas(hook.stored[1])]
    /\ HookUnchanged

\* the object is deleted: the loop of reconcileDelete runs over the replica
\* count of the object as it is stored now
TeardownNodeGroup ==
    /\ hook.stored # <<>>
    /\ hook.children # {}
    /\ hook' = [hook EXCEPT
                   !.stored = <<>>,
                   !.torn = <<[replicas |-> hook.stored[1].replicas,
                              children |-> hook.children]>>]
    /\ HookUnchanged

-----------------------------------------------------------------------------
(* Create and update requests for a Mesh: Mesh.Default and meshValidator *)

\* Spec.Bootstrap.Cluster: nil, or its replica count and whether PVCSpec is set
ClusterSections ==
    {<<>>} \cup {<<c>> : c \in [replicas : 1..MaxReplicas, persistent : BOOLEAN]}

\* Spec.Issuer: nothing given, an issuer to create, a reference with its kind
IssuerConfigs ==
    { [create |-> FALSE, name |-> "", kind |-> ""],
      [create |-> TRUE, name |-> "", kind |-> ""],
      [create |-> FALSE, name |-> "ca", kind |-> "Issuer"] }

\* the fields of a Mesh the webhooks read
MeshObjects ==
    [ipv4 : {"172.10.0.0/24", "10.0.0.0/8"}, cluster : ClusterSections,
     configGroup : {"", "p"}, config : BOOLEAN, configGroups : SUBSET {"p"},
     issuer : IssuerConfigs]

\* Mesh.Default
MeshDefault(o) ==
    [o EXCEPT
        !.config = IF o.configGroup = "" /\ ~o.config THEN TRUE ELSE @,
        !.cluster = IF @ = <<>> THEN <<[replicas |-> 1, persistent |-> TRUE]>>
                    ELSE <<[@[1] EXCEPT !.persistent = TRUE]>>,
        !.issuer = IF @.create THEN [@ EXCEPT !.name = "mesh-ca"] ELSE @]

\* meshValidator.ValidateCreate
MeshValidateCreate(o) ==
    IF o.configGroup # "" /\ o.configGroup \notin o.configGroups
    THEN <<"configGroup must be a valid config group name">>
    ELSE IF o.issuer.name = "" /\ ~o.issuer.create
    THEN <<"create must be true if issuerRef.name is empty">>
    ELSE IF o.issuer.name # "" /\ o.issuer.kind = ""
    THEN <<"kind must not be empty if issuerRef.name is not empty">>
    ELSE Nil

\* meshValidator.ValidateUpdate; new.Spec.Bootstrap.Cluster is dereferenced
\* without a check
MeshValidateUpdate(old, new) ==
    IF old.ipv4 # new.ipv4 THEN <<"ipv4 is immutable">>
    ELSE IF old.cluster = <<>> THEN Nil
    ELSE IF new.cluster = <<>> THEN <<NilDeref>>
    ELSE IF old.cluster[1].replicas # new.cluster[1].replicas
    THEN <<"bootstrap.replicas is immutable">>
    ELSE IF old.cluster[1].persistent /\ ~new.cluster[1].persistent
    THEN <<"changing to a non-persistent bootstrap node group is not supported">>
    ELSE IF ~old.cluster[1].persistent /\ new.cluster[1].persistent
    THEN <<"changing to a persistent bootstrap node group is not supported">>
    ELSE Nil

NoMeshHook == [stored |-> <<>>, requests |-> 0, last |-> NoRequest]

MeshHookUnchanged ==
    UNCHANGED <<render, merging, proxy, owned, podspec, admission, hook, bootstrap, lbLookup, naming, meshVars, lbSvc, groupVars>>

\* a create request: defaulted, validated, stored when there is no error
CreateMesh(obj) ==
    /\ meshHook.stored = <<>>
    /\ meshHook.requests < MaxRequests
    /\ LET o == MeshDefault(obj)
           err == MeshValidateCreate(o)
       IN  meshHook' = [meshHook EXCEPT
                          !.requests = @ + 1,
                          !.stored = IF err = Nil THEN <<o>> ELSE @,
                          !.last = [op |-> "create", uid |-> "", old |-> <<>>,
                                    new |-> <<o>>, err |-> err]]
    /\ MeshHookUnchanged

\* an update request: defaulted, validated against the stored object
UpdateMesh(obj) ==
    /\ meshHook.stored # <<>>
    /\ meshHook.requests < MaxRequests
    /\ LET old == meshHook.stored[1]
           o == MeshDefault(obj)
           err == MeshValidateUpdate(old, o)
       IN  meshHook' = [meshHook EXCEPT
                          !.requests = @ + 1,
                          !.stored = IF err = Nil THEN <<o>> ELSE @,
                          !.last = [op |-> "update", uid |-> "", old |-> <<old>>,
                                    new |-> <<o>>, err |-> err]]
    /\ MeshHookUnchanged

\* meshValidator.ValidateUpdate on its own, for any old and new object
ValidateMeshUpdate(new) ==
    /\ meshHook.stored # <<>>
    /\ meshHook.last.op = "none"
    /\ LET old == meshHook.stored[1]
       IN  meshHook' = [meshHook EXCEPT
                          !.last = [op |-> "update", uid |-> "", old |-> <<old>>,
                                    new |-> <<new>>,
                                    err |-> MeshValidateUpdate(old, new)]]
    /\ MeshHookUnchanged

-----------------------------------------------------------------------------
(* Mesh.BootstrapGroups with the labels and annotations of the Mesh. A map is  *)
(* a function on its keys; a map field is <<>> when nil and <<map>> otherwise, *)
(* and a map obtained from the Mesh is the Mesh's own map, not a copy.         *)

MeshNameLabel == "webmesh.io/mesh-name"
MeshNamespaceLabel == "webmesh.io/mesh-namespace"
BootstrapNodeGroupLabel == "webmesh.io/bootstrap-nodegroup-label"
ZoneAwarenessLabel == "webmesh.io/zone-awareness"
BootstrapNodeGroupAnnotation == "webmesh.io/bootstrap-nodegroup"

EmptyMap == [k \in {} |-> ""]
MapSet(mp, key, val) == [k \in DOMAIN mp \cup {key} |-> IF k = key THEN val ELSE mp[k]]
MapDelete(mp, key) == [k \in DOMAIN mp \ {key} |-> mp[k]]
\* for k, v := range from { mp[k] = v }
MapSetAll(mp, from) ==
    [k \in DOMAIN mp \cup DOMAIN from |-> IF k \in DOMAIN from THEN from[k] ELSE mp[k]]

MeshBootstrapGroupSelector(name) ==
    MapSet(MapSet(MapSet(EmptyMap, MeshNameLabel, name), MeshNamespaceLabel, "ns"),
           BootstrapNodeGroupLabel, "true")

\* Mesh.BootstrapGroups: [groups, mesh], mesh being the receiver after the call
BootstrapGroupsOf(c) ==
    LET labels == MapSetAll(IF c.labels = <<>> THEN EmptyMap ELSE c.labels[1],
                            MeshBootstrapGroupSelector(c.name))
        annotations == MapSet(IF c.annotations = <<>> THEN EmptyMap ELSE c.annotations[1],
                              BootstrapNodeGroupAnnotation, "true")
        bootstrapGroup ==
            [name |-> "mesh-bootstrap", labels |-> labels, annotations |-> annotations,
             replicas |-> c.replicas, voter |-> c.voter, service |-> <<>>]
        lbGroup ==
            [bootstrapGroup EXCEPT
                !.name = "mesh-bootstrap-lb",
                !.annotations = MapDelete(@, BootstrapNodeGroupAnnotation),
                !.labels = MapSet(@, ZoneAwarenessLabel, bootstrapGroup.name),
                !.replicas = <<>>,
                !.voter = TRUE,
                !.service = c.service]
    IN  [groups |-> IF c.service # <<>> THEN <<bootstrapGroup, lbGroup>>
                    ELSE <<bootstrapGroup>>,
         mesh |-> [c EXCEPT
                     !.labels = IF @ = <<>> THEN @ ELSE <<labels>>,
                     !.annotations = IF @ = <<>> THEN @ ELSE <<annotations>>]]

\* isBootstrap of buildClusterNodeConfig: the node is rendered in bootstrap mode
\* when it is TRUE and in join mode otherwise
IsBootstrap(g) ==
    BootstrapNodeGroupAnnotation \in DOMAIN g.annotations
    /\ g.annotations[BootstrapNodeGroupAnnotation] = "true"

\* the label and annotation maps a Mesh may carry
LabelMaps ==
    {<<>>, <<EmptyMap>>, <<MapSet(EmptyMap, "app", "x")>>,
     <<MapSet(EmptyMap, MeshNameLabel, "other")>>}
AnnotationMaps ==
    {<<>>, <<EmptyMap>>, <<MapSet(EmptyMap, "note", "n")>>,
     <<MapSet(EmptyMap, BootstrapNodeGroupAnnotation, "false")>>}

BootstrapMeshes ==
    [name : {"mesh"}, labels : LabelMaps, annotations : AnnotationMaps,
     replicas : {<<n>> : n \in 1..MaxReplicas}, voter : BOOLEAN,
     service : {<<>>, <<"ClusterIP">>, <<"LoadBalancer">>}]

NoBootstrap == [done |-> FALSE, mesh |-> <<>>, after |-> <<>>, groups |-> <<>>]

\* Mesh.BootstrapGroups is called on the Mesh bootstrap.mesh
ComputeBootstrapGroups ==
    /\ ~bootstrap.done
    /\ LET r == BootstrapGroupsOf(bootstrap.mesh)
       IN  bootstrap' = [bootstrap EXCEPT !.done = TRUE, !.after = r.mesh,
                                          !.groups = r.groups]
    /\ UNCHANGED <<render, merging, proxy, owned, podspec, admission, hook, meshHook, lbLookup, naming, meshVars, lbSvc, groupVars>>

-----------------------------------------------------------------------------
(* getLBExternalIPs called on its own, in its two revisions *)

\* the revision without the check of an ingress entry: every ingress IP is
\* appended as it is, and the Service's ClusterIP is appended unparsed for a
\* NodePort and for a ClusterIP Service.  Spec.IPFamilies is set whenever
\* Spec.ClusterIPs is, so the guard on it does not change the loop.
ExternalIPsOfB(svc) ==
    LET ready(ips) == IF ips = <<>> THEN [ips |-> <<>>, err |-> <<ErrLBNotReady>>]
                      ELSE [ips |-> ips, err |-> Nil]
    IN  CASE svc.type = "LoadBalancer" ->
                IF svc.ingress = <<>> THEN [ips |-> <<>>, err |-> <<ErrLBNotReady>>]
                ELSE LET p == PublicClusterIPs(svc.clusterIPs)
                     IN  IF p.err # Nil THEN p ELSE ready(svc.ingress \o p.ips)
          [] svc.type = "NodePort" -> ready(<<ClusterIPOf(svc)>>)
          [] svc.type = "ClusterIP" ->
                LET p == PublicClusterIPs(svc.clusterIPs)
                IN  IF p.err # Nil THEN p ELSE ready(p.ips \o <<ClusterIPOf(svc)>>)
          [] OTHER -> [ips |-> <<>>, err |-> <<"service has unknown type">>]

getLBExternalIPsB(c, failAt, g, svc) ==
    Then(Call(c, failAt, "get", "Service", MeshNodeGroupLBName(MeshName, g), <<>>,
              IF svc.exists THEN Nil ELSE <<NotFound>>),
         LAMBDA c1 :
            IF c1.err # Nil
            THEN [c |-> c1, ips |-> <<>>, err |-> Wrap("fetch load balancer service", c1.err)]
            ELSE [c |-> c1, ips |-> ExternalIPsOfB(svc).ips, err |-> ExternalIPsOfB(svc).err])

\* the Services the lookup is called on: a LoadBalancer Service has a cluster
\* IP and zero or more ingress entries, of which one may carry a hostname and
\* no IP
LookupServices ==
    LBStates
    \cup {Svc("LoadBalancer", i, c) :
            i \in {<<>>, <<"">>, <<PubA>>, <<PubB, PubA>>, <<PubA, "">>},
            c \in {<<Priv>>, <<PubV6>>, <<Priv, PubV6>>}}
    \cup {Svc("ClusterIP", <<>>, <<Priv, PubV6>>), Svc("NodePort", <<>>, <<Priv, PubV6>>)}

NoLookup == [done |-> FALSE, rev |-> "A", svc |-> NoService, ips |-> <<>>, err |-> Nil]

\* the lookup is called for the Service lbLookup.svc; the Get is the failAt-th call
LookupExternalIPs(failAt) ==
    /\ ~lbLookup.done
    /\ LET g == MeshBootstrapGroupName(MeshName)
           r == IF lbLookup.rev = "A" THEN getLBExternalIPs(Ctx0, failAt, g, lbLookup.svc)
                ELSE getLBExternalIPsB(Ctx0, failAt, g, lbLookup.svc)
       IN  lbLookup' = [lbLookup EXCEPT !.done = TRUE, !.ips = r.ips, !.err = r.err]
    /\ UNCHANGED <<render, merging, proxy, owned, podspec, admission, hook, meshHook, bootstrap, naming, meshVars, lbSvc, groupVars>>

\* no function is being called on its own
NoPureCalls ==
    /\ render = NoRender
    /\ merging = NoMerging
    /\ proxy = NoProxy
    /\ owned = NoOwned
    /\ podspec = NoPodSpec
    /\ admission = NoAdmission
    /\ hook = NoHook
    /\ meshHook = NoMeshHook
    /\ bootstrap = NoBootstrap
    /\ lbLookup = NoLookup

-----------------------------------------------------------------------------
(* The naming functions, called on their own *)

\* the single characters of the object names given to the naming functions
NameChars == {"a", "b", "-"}

\* metadata.name of at most n pieces: it begins and ends with a letter
ObjectNames(n) ==
    {s \in UNION {[1..k -> NameChars] : k \in 1..n} : s[1] # "-" /\ s[Len(s)] # "-"}

NoNaming ==
    [done |-> FALSE, mesh |-> <<>>, group |-> <<>>, other |-> <<>>, index |-> 0,
     base |-> <<>>, replica |-> <<>>, children |-> {}, otherChildren |-> {}]

\* the child objects the reconcilers name for group g of mesh m, by kind and name
ChildObjects(m, g) ==
    {<<"Service", MeshNodeGroupHeadlessServiceName(m, g)>>,
     <<"Service", MeshNodeGroupLBName(m, g)>>,
     <<"ConfigMap", MeshNodeGroupLBName(m, g)>>,
     <<"Deployment", MeshNodeGroupLBName(m, g)>>}
    \cup {<<"Pod", MeshNodeGroupPodName(m, g, i)>> : i \in AllReplicas}
    \cup {<<"ConfigMap", MeshNodeGroupPodName(m, g, i)>> : i \in AllReplicas}
    \cup {<<"Certificate", MeshNodeCertName(m, g, i)>> : i \in AllReplicas}
    \cup {<<"Instance", InstanceName(g, i)>> : i \in AllReplicas}

\* the naming functions are called for the groups `group` and `other` of a Mesh
GenerateNames ==
    /\ ~naming.done
    /\ naming' =
          [naming EXCEPT
              !.done = TRUE,
              !.base = MeshNodeGroupStatefulSetName(naming.mesh, naming.group),
              !.replica = MeshNodeGroupPodName(naming.mesh, naming.group, naming.index),
              !.children = ChildObjects(naming.mesh, naming.group),
              !.otherChildren = ChildObjects(naming.mesh, naming.other)]
    /\ UNCHANGED <<pureVars, meshVars, lbSvc, groupVars>>

InitNames ==
    /\ meshRev = "A"
    /\ mesh \in {m \in Meshes : m.exposed /\ m.issuerCreate}
    /\ lbSvc = NoService
    /\ adminCert = NoSecret
    /\ mres = NoInvocation
    /\ meshQueued = FALSE
    /\ group = NodeGroup(WorkersName, "cluster", 1, FALSE, "", FALSE, FALSE)
    /\ kids = NoKids
    /\ nres = NoInvocation
    /\ \E m \in ObjectNames(MaxNameLen - 1) : \E g \in ObjectNames(MaxNameLen) :
       \E o \in ObjectNames(MaxNameLen) : \E i \in AllReplicas :
          naming = [NoNaming EXCEPT !.mesh = m, !.group = g, !.other = o, !.index = i]
    /\ NoPureCalls

NextNames == GenerateNames

SpecNames == InitNames /\ [][NextNames]_vars

\* the reconcilers are at rest
ControllersIdle ==
    /\ meshRev = "A"
    /\ mesh \in {m \in Meshes : m.exposed /\ m.issuerCreate}
    /\ lbSvc = NoService
    /\ adminCert = NoSecret
    /\ mres = NoInvocation
    /\ meshQueued = FALSE
    /\ group = NodeGroup(WorkersName, "cluster", 1, FALSE, "", FALSE, FALSE)
    /\ kids = NoKids
    /\ nres = NoInvocation

InitRender ==
    /\ ControllersIdle
    /\ naming = NoNaming
    /\ lbLookup = NoLookup
    /\ bootstrap = NoBootstrap
    /\ meshHook = NoMeshHook
    /\ hook = NoHook
    /\ admission = NoAdmission
    /\ podspec = NoPodSpec
    /\ owned = NoOwned
    /\ merging = NoMerging
    /\ proxy = NoProxy
    /\ \E o \in RenderOptions : render = [NoRender EXCEPT !.given = o, !.opts = o]

NextRender == \E order \in Orders(DOMAIN render.opts.bootstrapServers) : Render(order)

SpecRender == InitRender /\ [][NextRender]_vars

InitMerge ==
    /\ ControllersIdle
    /\ naming = NoNaming
    /\ lbLookup = NoLookup
    /\ bootstrap = NoBootstrap
    /\ meshHook = NoMeshHook
    /\ hook = NoHook
    /\ admission = NoAdmission
    /\ podspec = NoPodSpec
    /\ owned = NoOwned
    /\ render = NoRender
    /\ proxy = NoProxy
    /\ \E b \in NodeGroupConfigs(MaxSetFields) : \E o \in NodeGroupConfigs(MaxSetFields) :
          merging = [NoMerging EXCEPT !.base = b, !.override = o]

NextMerge == Merge

SpecMerge == InitMerge /\ [][NextMerge]_vars

InitProxy ==
    /\ ControllersIdle
    /\ naming = NoNaming
    /\ lbLookup = NoLookup
    /\ bootstrap = NoBootstrap
    /\ meshHook = NoMeshHook
    /\ hook = NoHook
    /\ admission = NoAdmission
    /\ podspec = NoPodSpec
    /\ owned = NoOwned
    /\ render = NoRender
    /\ merging = NoMerging
    /\ \E rev \in {"A", "B"} : \E m \in ObjectNames(1) : \E g \in ObjectNames(MaxNameLen) :
       \E n \in 0..MaxReplicas : \E w \in WireGuardPorts :
          proxy = [NoProxy EXCEPT !.rev = rev, !.mesh = m, !.group = g, !.replicas = n,
                                  !.wireGuardPort = w]

NextProxy == BuildLBConfigMap

SpecProxy == InitProxy /\ [][NextProxy]_vars

InitOwned ==
    /\ ControllersIdle
    /\ naming = NoNaming
    /\ lbLookup = NoLookup
    /\ bootstrap = NoBootstrap
    /\ meshHook = NoMeshHook
    /\ hook = NoHook
    /\ admission = NoAdmission
    /\ podspec = NoPodSpec
    /\ render = NoRender
    /\ merging = NoMerging
    /\ proxy = NoProxy
    /\ \E m \in ObjectNames(1) : \E g \in ObjectNames(MaxNameLen) :
       \E n \in 0..MaxReplicas : \E e \in BOOLEAN :
       \E by \in {"NodeGroupReconciler", "MeshReconciler"} :
          owned = [NoOwned EXCEPT !.by = by, !.mesh = m, !.group = g, !.replicas = n,
                                  !.exposed = e]

NextOwned == BuildChildren

SpecOwned == InitOwned /\ [][NextOwned]_vars

InitPodSpec ==
    /\ ControllersIdle
    /\ naming = NoNaming
    /\ lbLookup = NoLookup
    /\ bootstrap = NoBootstrap
    /\ meshHook = NoMeshHook
    /\ hook = NoHook
    /\ admission = NoAdmission
    /\ render = NoRender
    /\ merging = NoMerging
    /\ proxy = NoProxy
    /\ owned = NoOwned
    /\ \E a \in AdditionalContainers(MaxSidecars) :
          podspec = [NoPodSpec EXCEPT !.additional = a]

NextPodSpec == BuildPod

SpecPodSpec == InitPodSpec /\ [][NextPodSpec]_vars

InitAdmission ==
    /\ ControllersIdle
    /\ naming = NoNaming
    /\ lbLookup = NoLookup
    /\ bootstrap = NoBootstrap
    /\ meshHook = NoMeshHook
    /\ hook = NoHook
    /\ render = NoRender
    /\ merging = NoMerging
    /\ proxy = NoProxy
    /\ owned = NoOwned
    /\ podspec = NoPodSpec
    /\ \E rev \in {"A", "B"} : \E s \in NodeGroupSpecs :
          admission = [NoAdmission EXCEPT !.rev = rev, !.stage = "submitted",
                                         !.declared = s, !.spec = s]

NextAdmission == DefaultNodeGroup \/ ValidateNodeGroup \/ DispatchNodeGroup

SpecAdmission == InitAdmission /\ [][NextAdmission]_vars

InitHook ==
    /\ ControllersIdle
    /\ naming = NoNaming
    /\ lbLookup = NoLookup
    /\ bootstrap = NoBootstrap
    /\ meshHook = NoMeshHook
    /\ render = NoRender
    /\ merging = NoMerging
    /\ proxy = NoProxy
    /\ owned = NoOwned
    /\ podspec = NoPodSpec
    /\ admission = NoAdmission
    /\ \E rev \in {"A", "B"} : hook = [NoHook EXCEPT !.rev = rev]

NextHook ==
    \/ \E uid \in UserUIDs : \E obj \in NodeGroupObjects : CreateNodeGroup(uid, obj)
    \/ \E uid \in UserUIDs : \E obj \in NodeGroupObjects : \E review \in TokenReviews :
          UpdateNodeGroup(uid, obj, review)
    \/ CreateChildren
    \/ TeardownNodeGroup

SpecHook == InitHook /\ [][NextHook]_vars

\* the requests for a Mesh, from the creation on
InitMeshHook ==
    /\ ControllersIdle
    /\ naming = NoNaming
    /\ NoPureCalls

NextMeshHook ==
    \/ \E obj \in MeshObjects : CreateMesh(obj)
    \/ \E obj \in MeshObjects : UpdateMesh(obj)

SpecMeshHook == InitMeshHook /\ [][NextMeshHook]_vars

\* meshValidator.ValidateUpdate on its own
InitMeshValidate ==
    /\ ControllersIdle
    /\ naming = NoNaming
    /\ lbLookup = NoLookup
    /\ bootstrap = NoBootstrap
    /\ render = NoRender
    /\ merging = NoMerging
    /\ proxy = NoProxy
    /\ owned = NoOwned
    /\ podspec = NoPodSpec
    /\ admission = NoAdmission
    /\ hook = NoHook
    /\ \E old \in MeshObjects : meshHook = [NoMeshHook EXCEPT !.stored = <<old>>]

NextMeshValidate == \E new \in MeshObjects : ValidateMeshUpdate(new)

SpecMeshValidate == InitMeshValidate /\ [][NextMeshValidate]_vars

InitBootstrap ==
    /\ ControllersIdle
    /\ naming = NoNaming
    /\ lbLookup = NoLookup
    /\ render = NoRender
    /\ merging = NoMerging
    /\ proxy = NoProxy
    /\ owned = NoOwned
    /\ podspec = NoPodSpec
    /\ admission = NoAdmission
    /\ hook = NoHook
    /\ meshHook = NoMeshHook
    /\ \E c \in BootstrapMeshes : bootstrap = [NoBootstrap EXCEPT !.mesh = c]

NextBootstrap == ComputeBootstrapGroups

SpecBootstrap == InitBootstrap /\ [][NextBootstrap]_vars

InitLookup ==
    /\ ControllersIdle
    /\ naming = NoNaming
    /\ render = NoRender
    /\ merging = NoMerging
    /\ proxy = NoProxy
    /\ owned = NoOwned
    /\ podspec = NoPodSpec
    /\ admission = NoAdmission
    /\ hook = NoHook
    /\ meshHook = NoMeshHook
    /\ bootstrap = NoBootstrap
    /\ \E v \in {"A", "B"}, s \in LookupServices :
          lbLookup = [NoLookup EXCEPT !.rev = v, !.svc = s]

NextLookup == \E failAt \in 0..1 : LookupExternalIPs(failAt)

SpecLookup == InitLookup /\ [][NextLookup]_vars

-----------------------------------------------------------------------------
(* Actions of the Mesh reconciler and of its environment *)

MeshReconcile(failAt) ==
    /\ meshQueued
    /\ mres' = IF meshRev = "A" THEN MeshReconcileA(failAt, mesh, lbSvc, adminCert)
               ELSE MeshReconcileB(failAt, mesh, lbSvc, adminCert)
    /\ meshQueued' = Requeued(mres')
    /\ UNCHANGED <<pureVars, naming, meshRev, mesh, lbSvc, adminCert, groupVars>>

\* a watch event or the periodic resync queues a request
EnqueueMesh ==
    /\ ~meshQueued
    /\ meshQueued' = TRUE
    /\ mres' = NoInvocation
    /\ UNCHANGED <<pureVars, naming, meshRev, mesh, lbSvc, adminCert, groupVars>>

\* the fronting Service is created, deleted, or its status is written
SetLBService(s) ==
    /\ s # lbSvc
    /\ lbSvc' = s
    /\ mres' = NoInvocation
    /\ nres' = NoInvocation
    /\ UNCHANGED <<pureVars, naming, meshRev, mesh, adminCert, meshQueued, group, kids>>

\* the certificate collaborator writes the admin certificate Secret
SetAdminCert(s) ==
    /\ s # adminCert
    /\ adminCert' = s
    /\ mres' = NoInvocation
    /\ UNCHANGED <<pureVars, naming, meshRev, mesh, lbSvc, meshQueued, groupVars>>

Init ==
    /\ meshRev \in {"A", "B"}
    /\ mesh \in Meshes
    /\ lbSvc = NoService
    /\ adminCert = NoSecret
    /\ mres = NoInvocation
    /\ meshQueued = TRUE
    /\ group = NodeGroup(WorkersName, "cluster", 1, FALSE, "", FALSE, FALSE)
    /\ kids = NoKids
    /\ nres = NoInvocation
    /\ naming = NoNaming
    /\ NoPureCalls

Next ==
    \/ \E f \in 0..MaxCalls : MeshReconcile(f)
    \/ EnqueueMesh
    \/ \E s \in LBStates : SetLBService(s)
    \/ \E s \in CertStates : SetAdminCert(s)

Spec == Init /\ [][Next]_vars

LiveSpec == Spec /\ WF_vars(MeshReconcile(0))

-----------------------------------------------------------------------------
(* Actions of the NodeGroup reconciler and of its environment *)

\* one invocation of Reconcile for the NodeGroup; items is the order in which the
\* List of the bootstrap groups comes back
NodeGroupReconcile(failAt, items) ==
    /\ nres' = NodeGroupReconcileOf(failAt, group, kids, items, lbSvc)
    /\ group' = GroupAfter(group, nres'.ops)
    /\ kids' = KidsAfter(group, kids, nres'.ops)
    /\ UNCHANGED <<pureVars, naming, meshVars, lbSvc>>

\* a user deletes the NodeGroup: the store sets the deletion timestamp
DeleteNodeGroup ==
    /\ ~group.deleting
    /\ group' = [group EXCEPT !.deleting = TRUE]
    /\ nres' = NoInvocation
    /\ UNCHANGED <<pureVars, naming, meshVars, lbSvc, kids>>

\* the states the cloud provider moves the fronting Service of the group through
OwnLBStates == {Svc("LoadBalancer", i, <<Priv>>) : i \in {<<>>, <<"">>, <<PubA>>}}

\* the cloud provider writes the status of the fronting Service of the group
AssignLBAddress(s) ==
    /\ kids.lb.exists
    /\ s # kids.lb
    /\ kids' = [kids EXCEPT !.lb = s]
    /\ nres' = NoInvocation
    /\ UNCHANGED <<pureVars, naming, meshVars, lbSvc, group>>

\* the states the Secret of a node certificate is observed in
NodeCertStates ==
    {NoSecret, Secret(FullData), Secret([FullData EXCEPT !["tls.key"] = "absent"]),
     Secret([FullData EXCEPT !["ca.crt"] = ""])}

\* the certificate collaborator writes the Secrets of the node certificates
SetNodeCert(s) ==
    /\ group.target = "cloud"
    /\ s # kids.nodeCert
    /\ kids' = [kids EXCEPT !.nodeCert = s]
    /\ nres' = NoInvocation
    /\ UNCHANGED <<pureVars, naming, meshVars, lbSvc, group>>

\* a pod is evicted or deleted behind the back of the reconciler
RemovePod(i) ==
    /\ kids.pods[i].exists
    /\ kids' = [kids EXCEPT !.pods[i] = NoPod]
    /\ nres' = NoInvocation
    /\ UNCHANGED <<pureVars, naming, meshVars, lbSvc, group>>

\* another client rewrites the annotations of a pod and drops a checksum
DropPodAnnotation(i, a) ==
    /\ kids.pods[i].exists
    /\ kids.pods[i].conf # <<>> /\ kids.pods[i].spec # <<>>
    /\ kids' = [kids EXCEPT !.pods[i][a] = <<>>]
    /\ nres' = NoInvocation
    /\ UNCHANGED <<pureVars, naming, meshVars, lbSvc, group>>

\* the states of the fronting Service of the bootstrap groups a join goes through
JoinLBStates ==
    {NoService, Svc("LoadBalancer", <<>>, <<Priv>>), Svc("LoadBalancer", <<PubA>>, <<Priv>>)}

NodeGroupMeshes == {m \in Meshes : m.exposed = m.issuerCreate}

\* volume claims a StatefulSet of the group has left behind
StatefulSetClaims(g) ==
    IF g.target = "cluster" /\ g.pvc
    THEN {DataPVCName(MeshName, g.name, i) : i \in Replicas(g)} ELSE {}

\* a fault hits a call the invocation makes
MaxFault(items) ==
    LET calls == Len(NodeGroupReconcileOf(0, group, kids, items, lbSvc).ops)
    IN  IF calls < MaxCalls THEN calls ELSE MaxCalls

InitNodeGroup ==
    /\ meshRev = "A"
    /\ mesh \in NodeGroupMeshes
    /\ lbSvc = NoService
    /\ adminCert = NoSecret
    /\ mres = NoInvocation
    /\ meshQueued = FALSE
    /\ group \in NodeGroups
    /\ kids \in {NoKids, [NoKids EXCEPT !.pvcs = StatefulSetClaims(group)]}
    /\ nres = NoInvocation
    /\ naming = NoNaming
    /\ NoPureCalls

NextNodeGroup ==
    \/ \E items \in BootstrapListings(mesh) : \E f \in 0..MaxFault(items) :
          NodeGroupReconcile(f, items)
    \/ DeleteNodeGroup
    \/ \E s \in OwnLBStates : AssignLBAddress(s)
    \/ \E s \in NodeCertStates : SetNodeCert(s)
    \/ \E i \in AllReplicas : RemovePod(i)
    \/ mesh.exposed /\ \E s \in JoinLBStates : SetLBService(s)

SpecNodeGroup == InitNodeGroup /\ [][NextNodeGroup]_vars

\* the in-cluster groups alone, with the clients that touch their pods
InitClusterPods == InitNodeGroup /\ group.target = "cluster"

\* no fault, or a fault that hits a call the invocation makes on a pod
PodFaults(items) ==
    LET ops == NodeGroupReconcileOf(0, group, kids, items, lbSvc).ops
    IN  {0} \cup {n \in DOMAIN ops : n <= MaxCalls /\ ops[n].kind = "Pod"}

NextClusterPods ==
    \/ \E items \in BootstrapListings(mesh) : \E f \in PodFaults(items) :
          NodeGroupReconcile(f, items)
    \/ \E s \in OwnLBStates : AssignLBAddress(s)
    \/ \E i \in AllReplicas : RemovePod(i)
    \/ \E i \in AllReplicas : \E a \in {"conf", "spec"} : DropPodAnnotation(i, a)
    \/ mesh.exposed /\ \E s \in JoinLBStates : SetLBService(s)

SpecClusterPods == InitClusterPods /\ [][NextClusterPods]_vars

-----------------------------------------------------------------------------
(* Properties of the Mesh reconciler *)

Range(seq) == {seq[i] : i \in DOMAIN seq}

IsAdminConfig(o) ==
    o.verb = "apply" /\ o.kind = "Secret" /\ o.name = MeshAdminConfigName(MeshName)
IsLBGet(o) == o.verb = "get" /\ o.kind = "Service"
IsCertGet(o) ==
    o.verb = "get" /\ o.kind = "Secret" /\ o.name = MeshAdminCertName(MeshName)
IsFirstBatch(o) == o.verb = "apply" /\ o.kind \in {"Issuer", "Certificate", "NodeGroup"}

\* the invocation made a call to apply the admin-config secret
AdminConfigApplied(r) == \E o \in Range(r.ops) : IsAdminConfig(o)
\* the invocation fetched the fronting service, and the fetch returned it
LBFetched(r) == \E o \in Range(r.ops) : IsLBGet(o) /\ o.err = Nil
\* the invocation fetched the admin certificate secret, and the fetch returned it
CertFetched(r) == \E o \in Range(r.ops) : IsCertGet(o) /\ o.err = Nil

\* a LoadBalancer service without an assigned address
NoAddressYet(svc) ==
    /\ svc.exists
    /\ svc.type = "LoadBalancer"
    /\ (svc.ingress = <<>> \/ \E i \in DOMAIN svc.ingress : svc.ingress[i] = "")
\* a LoadBalancer service that reports an address in every ingress entry
ReportsIngress(svc) ==
    /\ svc.exists
    /\ svc.type = "LoadBalancer"
    /\ svc.ingress # <<>>
    /\ \A i \in DOMAIN svc.ingress : svc.ingress[i] # ""
\* a service from which some external address can be read
HasExternalAddress(svc) ==
    \/ ReportsIngress(svc)
    \/ /\ svc.exists
       /\ svc.type = "ClusterIP"
       /\ \E i \in DOMAIN svc.clusterIPs : svc.clusterIPs[i] \in {PubA, PubB, PubV6}
CertComplete(secret) == secret.exists /\ \A k \in TLSKeys : secret.data[k] = "PEM"
Requeue3 == [requeue |-> TRUE, after |-> 3]

AdminConfigCurrent ==
    /\ mres.done
    /\ \E o \in Range(mres.ops) :
          /\ IsAdminConfig(o) /\ o.err = Nil
          /\ lbSvc.ingress # <<>>
          /\ o.val = <<lbSvc.ingress[1], ":", ToString(mesh.grpcPort)>>
AddressAndCertReady == mesh.exposed /\ ReportsIngress(lbSvc) /\ CertComplete(adminCert)

\* C2: once the fronting service reports an ingress address and the admin
\* certificate secret is complete, and both stay so, a queued Mesh request leads
\* to an invocation that applies the admin-config secret whose server is the first
\* reported address joined with the configured gRPC port.
C2_AdminConfigEventually ==
    [](([]AddressAndCertReady /\ meshQueued) => <>AdminConfigCurrent)

C2_Witness ==
    /\ AdminConfigCurrent /\ AddressAndCertReady
    /\ Len(lbSvc.ingress) = 2 /\ mesh.grpcPort # 8443

\* C3: an invocation applies the admin-config secret only if it fetched a fronting
\* service that has an external address and an admin certificate secret with all
\* of tls.crt, tls.key and ca.crt non-empty; an invocation that finds one of the
\* three missing or empty applies no admin-config secret and returns a requeue
\* after 3 seconds with a nil error.
C3_AdminConfigNeedsAddressAndCert ==
    /\ (mres.done /\ AdminConfigApplied(mres)) =>
          /\ LBFetched(mres) /\ HasExternalAddress(lbSvc)
          /\ CertFetched(mres) /\ CertComplete(adminCert)
    /\ (mres.done /\ CertFetched(mres) /\ ~CertComplete(adminCert)) =>
          /\ ~AdminConfigApplied(mres)
          /\ mres.res = Requeue3 /\ mres.err = Nil /\ ~mres.panicked

C3_Witness ==
    /\ mres.done /\ CertFetched(mres) /\ mesh.exposed /\ ReportsIngress(lbSvc)
    /\ adminCert.data["tls.key"] = "" /\ adminCert.data["ca.crt"] = "PEM"
    /\ mres.res = Requeue3

\* every call of the invocation succeeded
NoCallFailed(r) == \A o \in Range(r.ops) : o.err = Nil

\* C4: when no bootstrap group exposes an external service, an invocation whose
\* calls all succeed (the issuer objects, the admin certificate request and the
\* bootstrap group are applied) returns an empty result and a nil error and
\* applies no admin-config secret.
C4_UnexposedMeshCompletes ==
    (mres.done /\ ~mesh.exposed /\ NoCallFailed(mres)
        /\ \E o \in Range(mres.ops) : IsFirstBatch(o) /\ o.kind = "NodeGroup") =>
        /\ mres.res = [requeue |-> FALSE, after |-> 0]
        /\ mres.err = Nil /\ ~mres.panicked
        /\ ~AdminConfigApplied(mres)

\* C8: a not-found result of the fronting-service lookup makes the invocation
\* return a requeue-after-delay result with a nil error.
C8_ServiceNotFoundRequeues ==
    (mres.done /\ \E o \in Range(mres.ops) : IsLBGet(o) /\ o.err = <<"not found">>) =>
        (mres.err = Nil /\ mres.res.after > 0)

\* C9: when applying the issuer, admin-certificate or bootstrap-group objects
\* fails, or the fetch of the admin certificate secret fails, or the address lookup
\* fails with anything but ErrLBNotReady, the invocation returns that error with
\* an empty result and applies no admin-config secret.
C9_FailuresSurface ==
    mres.done =>
        /\ \A o \in Range(mres.ops) :
              (o.err # Nil /\ (IsFirstBatch(o) \/ IsCertGet(o) \/ IsLBGet(o))) =>
                  /\ mres.err # Nil
                  /\ SubSeq(mres.err, Len(mres.err) - Len(o.err) + 1, Len(mres.err)) = o.err
                  /\ mres.res = [requeue |-> FALSE, after |-> 0]
                  /\ ~AdminConfigApplied(mres)
        /\ (LBFetched(mres) /\ lbSvc.type \in {"NodePort", "ExternalName"}) =>
              /\ mres.err # Nil
              /\ \A i \in DOMAIN mres.err : mres.err[i] # "load balancer not ready"
              /\ mres.res = [requeue |-> FALSE, after |-> 0]
              /\ ~AdminConfigApplied(mres)

C9_Witness ==
    /\ mres.done /\ mres.err # Nil /\ mres.res = [requeue |-> FALSE, after |-> 0]
    /\ \E o \in Range(mres.ops) : IsFirstBatch(o) /\ o.err = <<"store failure">>
    /\ CertComplete(adminCert) /\ ReportsIngress(lbSvc)

-----------------------------------------------------------------------------
(* Properties of the NodeGroup reconciler *)

CertOf(i) == MeshNodeCertName(MeshName, group.name, i)
OwnLBName == MeshNodeGroupLBName(MeshName, group.name)
HeadlessName == MeshNodeGroupHeadlessServiceName(MeshName, group.name)

\* the call applies or creates a child object other than a certificate
IsChildWrite(o) ==
    /\ o.verb \in {"apply", "insert"}
    /\ o.kind \in {"Service", "ConfigMap", "Deployment", "PersistentVolumeClaim", "Pod",
                   "Instance"}
\* the call applies a child object of the in-cluster branch that comes after the
\* exposure step
IsLateClusterChild(o) ==
    /\ o.verb = "apply"
    /\ \/ o.kind \in {"PersistentVolumeClaim", "Pod"}
       \/ o.kind = "Service" /\ o.name = HeadlessName
       \/ o.kind = "ConfigMap" /\ o.name # OwnLBName
AppliedAt(ops, n, kind, name) ==
    ops[n].verb = "apply" /\ ops[n].kind = kind /\ ops[n].name = name /\ ops[n].err = Nil
IsOwnLBGet(o) == o.verb = "get" /\ o.kind = "Service" /\ o.name = OwnLBName
IsJoinLBGet(o) ==
    o.verb = "get" /\ o.kind = "Service"
        /\ o.name = MeshNodeGroupLBName(MeshName, MeshBootstrapLBGroupName(MeshName))
AllCallsOK(r) == \A n \in DOMAIN r.ops : r.ops[n].err = Nil

\* C5: in an invocation for a NodeGroup that is not being deleted, every call
\* that applies or creates a child object other than a certificate comes after
\* the successful apply of the certificate of every replica index 0..N-1, and an
\* invocation in which a certificate apply failed writes no other child object.
C5_CertificatesFirst ==
    (nres.done /\ ~group.deleting) =>
        /\ \A j \in DOMAIN nres.ops :
              IsChildWrite(nres.ops[j]) =>
                  \A i \in Replicas(group) :
                      \E n \in 1..(j - 1) : AppliedAt(nres.ops, n, "Certificate", CertOf(i))
        /\ (\E n \in DOMAIN nres.ops :
                nres.ops[n].kind = "Certificate" /\ nres.ops[n].err # Nil) =>
              \A j \in DOMAIN nres.ops : ~IsChildWrite(nres.ops[j])

C5_Witness ==
    /\ nres.done /\ ~group.deleting /\ group.replicas = 2
    /\ \E j \in DOMAIN nres.ops : nres.ops[j].kind = "Pod" /\ nres.ops[j].verb = "apply"
    /\ \E j \in DOMAIN nres.ops : nres.ops[j].kind = "PersistentVolumeClaim"

ExposedWithoutURL ==
    group.target = "cluster" /\ group.service /\ group.externalURL = "" /\ ~group.deleting

\* C6: for an in-cluster group with an external service and no static external
\* URL, the read of the fronting service comes after the successful apply of the
\* proxy config map, the proxy deployment and the fronting service; an invocation
\* that did not read an address from the service applies no headless service,
\* volume claim, node config map or pod; and an invocation that finds the service
\* without an address, all of its calls succeeding, returns a requeue after 5
\* seconds with a nil error.
C6_ExposureFirst ==
    (nres.done /\ ExposedWithoutURL) =>
        /\ \A j \in DOMAIN nres.ops :
              IsOwnLBGet(nres.ops[j]) =>
                  \A kind \in {"ConfigMap", "Deployment", "Service"} :
                      \E n \in 1..(j - 1) : AppliedAt(nres.ops, n, kind, OwnLBName)
        /\ (\E j \in DOMAIN nres.ops : IsLateClusterChild(nres.ops[j])) =>
              /\ \E j \in DOMAIN nres.ops : IsOwnLBGet(nres.ops[j]) /\ nres.ops[j].err = Nil
              /\ ReportsIngress(kids.lb)
        /\ ((\E j \in DOMAIN nres.ops : IsOwnLBGet(nres.ops[j]))
                /\ AllCallsOK(nres) /\ NoAddressYet(kids.lb)) =>
              /\ nres.res = [requeue |-> FALSE, after |-> 5]
              /\ nres.err = Nil

C6_Witness ==
    /\ nres.done /\ ExposedWithoutURL /\ group.replicas = 2 /\ group.pvc
    /\ \E j \in DOMAIN nres.ops : IsOwnLBGet(nres.ops[j]) /\ nres.ops[j].err = Nil
    /\ kids.lb.ingress = <<"">>
    /\ nres.res = [requeue |-> FALSE, after |-> 5]

\* C7: an invocation, all of its calls succeeding, that reads a fronting service
\* without an address (the service of the group, or the service of the group
\* chosen as join server) returns a requeue-after-delay result with a nil error.
C7_LBNotReadyNeverAnError ==
    (nres.done /\ ~group.deleting /\ AllCallsOK(nres)
        /\ \/ (\E j \in DOMAIN nres.ops : IsOwnLBGet(nres.ops[j])) /\ NoAddressYet(kids.lb)
           \/ (\E j \in DOMAIN nres.ops : IsJoinLBGet(nres.ops[j])) /\ NoAddressYet(lbSvc)) =>
        (nres.err = Nil /\ nres.res.after > 0)

\* a teardown call that failed: anything but a lookup that found nothing
FailedTeardownStep(o) ==
    /\ o.kind \in {"Instance", "PersistentVolumeClaim"}
    /\ o.err # Nil
    /\ ~(o.verb = "get" /\ o.err = <<"not found">>)
IsFinalizerRemoval(o) ==
    o.verb = "update" /\ o.kind = "NodeGroup" /\ o.val = <<"remove finalizer">>

\* C10: in an invocation for a NodeGroup with a deletion timestamp, the finalizer
\* goes away only when no teardown call before its removal failed, every instance
\* of a cloud group that existed was deleted and the deletion awaited, and the
\* data volume claims of an in-cluster group are gone; when a teardown call fails
\* the invocation returns an error and the finalizer stays; and the invocation
\* applies or creates no object.
C10_FinalizerAfterTeardown ==
    [][(nres'.done /\ group.deleting /\ group.finalizer) =>
        /\ \A j \in DOMAIN nres'.ops : nres'.ops[j].verb \notin {"apply", "insert"}
        /\ ~group'.finalizer =>
              /\ \E u \in DOMAIN nres'.ops :
                    /\ IsFinalizerRemoval(nres'.ops[u]) /\ nres'.ops[u].err = Nil
                    /\ \A n \in 1..(u - 1) : ~FailedTeardownStep(nres'.ops[n])
                    /\ \A i \in Replicas(group) :
                          (group.target = "cloud" /\ kids.instances[i].exists) =>
                              \E d \in 1..(u - 1) : \E w \in (d + 1)..(u - 1) :
                                  /\ nres'.ops[d].verb = "delete" /\ nres'.ops[d].err = Nil
                                  /\ nres'.ops[d].name = InstanceName(group.name, i)
                                  /\ nres'.ops[w].verb = "wait" /\ nres'.ops[w].err = Nil
                                  /\ nres'.ops[w].name = InstanceName(group.name, i)
              /\ \A i \in Replicas(group) :
                    /\ ~kids'.instances[i].exists
                    /\ DataPVCName(MeshName, group.name, i) \notin kids'.pvcs
        /\ (\E j \in DOMAIN nres'.ops : FailedTeardownStep(nres'.ops[j])) =>
              /\ nres'.err # Nil
              /\ group'.finalizer
    ]_vars

C10_Witness ==
    /\ nres.done /\ group.deleting /\ ~group.finalizer
    /\ \E j \in DOMAIN nres.ops : nres.ops[j].verb = "delete" /\ nres.ops[j].err = Nil
    /\ \E j \in DOMAIN nres.ops : IsFinalizerRemoval(nres.ops[j]) /\ nres.ops[j].err = Nil
    /\ group.replicas = 2

\* the finalizer was taken off the NodeGroup by the invocation
FinalizerRemoved(r) ==
    \E u \in DOMAIN r.ops : IsFinalizerRemoval(r.ops[u]) /\ r.ops[u].err = Nil

\* C11: after the deletion reconcile of an in-cluster NodeGroup with persistent
\* storage has removed the finalizer, none of the volume claims created for the
\* group, the ones its replica pods mount, still exists.
C11_MountedClaimsDeleted ==
    (nres.done /\ group.target = "cluster" /\ group.pvc /\ group.deleting
        /\ ~group.finalizer /\ FinalizerRemoved(nres)) =>
        \A i \in Replicas(group) : NodeGroupPVCName(MeshName, group.name, i) \notin kids.pvcs

\* the calls of an invocation on the instance of replica i
InstanceCalls(ops, verb, i) ==
    {n \in DOMAIN ops : ops[n].kind = "Instance" /\ ops[n].verb = verb
                        /\ ops[n].name = InstanceName(group.name, i)}
CloudTeardown == group.target = "cloud" /\ group.deleting /\ group.finalizer
\* no call of the invocation failed, but for lookups that found nothing
NoCallBroke(r) == \A n \in DOMAIN r.ops : r.ops[n].err \in {<<>>, <<"not found">>}

\* C12: the teardown of a cloud group of N replicas makes at most one
\* delete-instance call for a replica index, none for an index whose lookup
\* returned not-found or whose instance does not exist, none for a name outside
\* 0..N-1, and, all of its calls succeeding, exactly one for every index whose
\* instance exists.
C12_OneDeletePerInstance ==
    [][(nres'.done /\ CloudTeardown) =>
        /\ \A n \in DOMAIN nres'.ops :
              (nres'.ops[n].kind = "Instance" /\ nres'.ops[n].verb = "delete") =>
                  \E i \in Replicas(group) : nres'.ops[n].name = InstanceName(group.name, i)
        /\ \A i \in Replicas(group) :
              /\ Cardinality(InstanceCalls(nres'.ops, "delete", i)) <= 1
              /\ (\E n \in InstanceCalls(nres'.ops, "get", i) :
                      nres'.ops[n].err = <<"not found">>) =>
                    InstanceCalls(nres'.ops, "delete", i) = {}
              /\ ~kids.instances[i].exists => InstanceCalls(nres'.ops, "delete", i) = {}
              /\ (kids.instances[i].exists /\ NoCallBroke(nres')) =>
                    Cardinality(InstanceCalls(nres'.ops, "delete", i)) = 1
    ]_vars

C12_Witness ==
    /\ nres.done /\ group.target = "cloud" /\ group.deleting /\ ~group.finalizer
    /\ group.replicas = 2 /\ NoCallBroke(nres) /\ FinalizerRemoved(nres)
    /\ Cardinality(InstanceCalls(nres.ops, "get", 0)) = 1
    /\ InstanceCalls(nres.ops, "delete", 0) = {}
    /\ Cardinality(InstanceCalls(nres.ops, "delete", 1)) = 1

\* the description the reconciler computes for the instance of replica i, once
\* the join server was read from the fronting service of the bootstrap groups
FreshDescription(i) ==
    Description(group, i, HostPort(<<ExternalIPsOf(lbSvc).ips[1]>>, mesh.grpcPort),
                kids.nodeCert)
CloudReconcile == group.target = "cloud" /\ ~group.deleting

\* C13: in a reconcile of a cloud group, for each replica index whose instance
\* was looked up: an instance found with the freshly computed description gets
\* no delete and no insert; one found with another description is deleted, and
\* an insert for it comes only after the delete and the wait on the delete both
\* succeeded; one not found gets no delete and one insert; there is never more
\* than one delete or insert for an index, every insert carries the fresh
\* description, and when no call fails the replaced and the absent instance get
\* exactly one insert.
C13_InstancePerDescription ==
    [][(nres'.done /\ CloudReconcile) =>
        \A i \in Replicas(group) :
           LET ops == nres'.ops
               gets == InstanceCalls(ops, "get", i)
               deletes == InstanceCalls(ops, "delete", i)
               inserts == InstanceCalls(ops, "insert", i)
               waits == InstanceCalls(ops, "wait", i)
           IN  /\ Cardinality(gets) <= 1
               /\ Cardinality(deletes) <= 1
               /\ Cardinality(inserts) <= 1
               /\ gets = {} => (deletes = {} /\ inserts = {})
               /\ \A g \in gets :
                    /\ \A n \in inserts : ops[n].val = FreshDescription(i)
                    /\ \A n \in deletes \cup inserts : g < n
                    /\ IF ops[g].err = Nil
                       THEN IF kids.instances[i].description = FreshDescription(i)
                            THEN deletes = {} /\ inserts = {}
                            ELSE /\ Cardinality(deletes) = 1
                                 /\ \A n \in inserts :
                                       \E d \in deletes : \E w \in waits :
                                          /\ d < w /\ w < n
                                          /\ ops[d].err = Nil /\ ops[w].err = Nil
                                 /\ NoCallBroke(nres') => Cardinality(inserts) = 1
                       ELSE IF ops[g].err = <<"not found">>
                            THEN deletes = {} /\ Cardinality(inserts) = 1
                            ELSE deletes = {} /\ inserts = {}
    ]_vars

C13_Witness ==
    /\ nres.done /\ CloudReconcile /\ group.replicas = 2 /\ AllCallsOK(nres)
    /\ Cardinality(InstanceCalls(nres.ops, "get", 0)) = 1
    /\ InstanceCalls(nres.ops, "insert", 0) = {}
    /\ Cardinality(InstanceCalls(nres.ops, "delete", 1)) = 1
    /\ Cardinality(InstanceCalls(nres.ops, "insert", 1)) = 1
    /\ kids.instances[0].description = FreshDescription(0)
    /\ kids.instances[1].description = FreshDescription(1)

\* the calls of an invocation for replica i: on its instance or its certificate
ReplicaCalls(ops, i) ==
    {n \in DOMAIN ops :
        \/ ops[n].kind = "Instance" /\ ops[n].name = InstanceName(group.name, i)
        \/ ops[n].kind = "Secret" /\ ops[n].name = MeshNodeCertName(MeshName, group.name, i)}
LookupFailure(err) ==
    \/ err[1] = "lookup existing instance"
    \/ err[1] = "failed to lookup existing instance"

\* C14: in the reconcile and in the teardown of a cloud group, an instance lookup
\* that returns not-found is followed by further calls (the insert of that
\* instance, the next replica, or the update of the NodeGroup), is followed by no
\* delete of that instance, and is not the error the invocation returns; a
\* lookup that fails otherwise is the last call of the invocation, which returns
\* an error wrapping the failure, and no call is made for a later replica index.
C14_OnlyNotFoundIsAbsent ==
    (nres.done /\ group.target = "cloud") =>
        \A i \in Replicas(group) : \A g \in InstanceCalls(nres.ops, "get", i) :
            IF nres.ops[g].err = <<"not found">>
            THEN /\ g < Len(nres.ops)
                 /\ InstanceCalls(nres.ops, "delete", i) = {}
                 /\ (nres.err # Nil /\ LookupFailure(nres.err)) =>
                        Tail(nres.err) # <<"not found">>
                 /\ NoCallBroke(nres) => nres.err = Nil
            ELSE nres.ops[g].err # Nil =>
                 /\ g = Len(nres.ops)
                 /\ nres.err # Nil /\ LookupFailure(nres.err)
                 /\ Tail(nres.err) = nres.ops[g].err
                 /\ \A j \in Replicas(group) : j > i => ReplicaCalls(nres.ops, j) = {}

C14_Witness ==
    /\ nres.done /\ group.target = "cloud" /\ group.replicas = 2
    /\ \E g \in InstanceCalls(nres.ops, "get", 0) : nres.ops[g].err = <<"not found">>
    /\ \E g \in InstanceCalls(nres.ops, "get", 1) : nres.ops[g].err = <<"store failure">>
    /\ nres.err # Nil

-----------------------------------------------------------------------------
(* Properties of the in-cluster branch *)

PodOf(i) == MeshNodeGroupPodName(MeshName, group.name, i)
\* the calls of an invocation on the pod of replica i
PodCalls(ops, verb, i) ==
    {n \in DOMAIN ops : ops[n].kind = "Pod" /\ ops[n].verb = verb /\ ops[n].name = PodOf(i)}
\* the config map an invocation applied for replica i
ConfigMapOf(ops, i) ==
    ops[CHOOSE n \in DOMAIN ops :
            ops[n].verb = "apply" /\ ops[n].kind = "ConfigMap" /\ ops[n].name = PodOf(i)].val
\* the pod the invocation computes for replica i: the checksum of the node
\* configuration it rendered, and the checksum of the pod spec
FreshPod(ops, i) ==
    [exists |-> TRUE, conf |-> <<"sha256", ConfigMapOf(ops, i).data>>,
     spec |-> <<"sha256", group.name, group.pvc>>]
\* a checksum annotation of the pod is missing or differs from the fresh one
Stale(pod, fresh) ==
    \/ pod.conf = <<>> \/ pod.spec = <<>>
    \/ pod.conf # fresh.conf \/ pod.spec # fresh.spec
ClusterReconcile == group.target = "cluster" /\ ~group.deleting

\* C15: in an in-cluster reconcile, for each replica index whose pod was looked
\* up: when the lookup finds no pod, the pod is applied and nothing is deleted;
\* when it finds a pod, that pod is deleted, and applied again once the delete
\* succeeded, if and only if its config-checksum or spec-checksum annotation is
\* missing or differs from the freshly computed value, and is otherwise neither
\* deleted nor applied; a pod is deleted only after its own lookup found it.
C15_PodPerChecksum ==
    [][(nres'.done /\ ClusterReconcile) =>
        /\ \A n \in DOMAIN nres'.ops :
              (nres'.ops[n].kind = "Pod" /\ nres'.ops[n].verb = "delete") =>
                  \E i \in Replicas(group) :
                      /\ nres'.ops[n].name = PodOf(i)
                      /\ \E g \in PodCalls(nres'.ops, "get", i) :
                            g < n /\ nres'.ops[g].err = Nil
        /\ \A i \in Replicas(group) :
              LET ops == nres'.ops
                  gets == PodCalls(ops, "get", i)
                  deletes == PodCalls(ops, "delete", i)
                  applies == PodCalls(ops, "apply", i)
              IN  /\ Cardinality(gets) <= 1
                  /\ Cardinality(deletes) <= 1
                  /\ Cardinality(applies) <= 1
                  /\ gets = {} => (deletes = {} /\ applies = {})
                  /\ \A g \in gets :
                       /\ \A n \in deletes \cup applies : g < n
                       /\ \A n \in applies : ops[n].val = FreshPod(ops, i)
                       /\ IF ops[g].err = <<"not found">>
                          THEN ~kids.pods[i].exists /\ deletes = {} /\ Cardinality(applies) = 1
                          ELSE IF ops[g].err # <<>>
                          THEN deletes = {} /\ applies = {}
                          ELSE IF Stale(kids.pods[i], FreshPod(ops, i))
                          THEN /\ Cardinality(deletes) = 1
                               /\ \A d \in deletes :
                                     IF ops[d].err = <<>>
                                     THEN Cardinality(applies) = 1 /\ \A n \in applies : d < n
                                     ELSE applies = {}
                          ELSE deletes = {} /\ applies = {}
    ]_vars

C15_Witness ==
    /\ nres.done /\ ClusterReconcile /\ group.replicas = 2 /\ AllCallsOK(nres)
    /\ Cardinality(PodCalls(nres.ops, "get", 0)) = 1
    /\ PodCalls(nres.ops, "delete", 0) = {}
    /\ PodCalls(nres.ops, "apply", 0) = {}
    /\ Cardinality(PodCalls(nres.ops, "delete", 1)) = 1
    /\ Cardinality(PodCalls(nres.ops, "apply", 1)) = 1
    /\ kids.pods[0].spec # <<>> /\ kids.pods[1].spec # <<>>

\* the invocation rendered the configuration of replica 0 and applied its config map
Rendered(ops) ==
    \E n \in DOMAIN ops :
        ops[n].verb = "apply" /\ ops[n].kind = "ConfigMap" /\ ops[n].name = PodOf(0)
\* the first external address of the fronting service of the exposed bootstrap
\* group, with the gRPC port that group declares
ExternalJoinServer ==
    IF mesh.exposed /\ lbSvc.exists /\ ExternalIPsOf(lbSvc).err = <<>>
    THEN <<ExternalIPsOf(lbSvc).ips[1], ":", ToString(mesh.grpcPort)>>
    ELSE <<"none">>

\* C16: a group that resolved a join server (an in-cluster group that is not a
\* bootstrap group and rendered its configuration, or a cloud group that inserted
\* an instance) got the first external address and gRPC port of the exposed
\* bootstrap-selected group when the Mesh has one; with no exposed group, a
\* caller without the bootstrap label resolves nothing.  The groups here that
\* resolve a join server carry no bootstrap label and are not bootstrap-selected.
C16_JoinServerResolution ==
    /\ (nres.done /\ ClusterReconcile /\ ~group.bootstrapLabel /\ Rendered(nres.ops)) =>
          /\ mesh.exposed
          /\ ConfigMapOf(nres.ops, 0).data.joinServer = ExternalJoinServer
    /\ (nres.done /\ CloudReconcile /\ ~group.bootstrapLabel) =>
          \A n \in InstanceCalls(nres.ops, "insert", 0) :
              /\ mesh.exposed
              /\ nres.ops[n].val[3][2] = ExternalJoinServer

\* the invocation ran to its end: no call failed, but for lookups that found
\* nothing, and it returned an empty result and no error
Completed(r) ==
    r.done /\ NoCallBroke(r) /\ r.err = <<>> /\ r.res = [requeue |-> FALSE, after |-> 0]
\* the applies of ops, other than of pods, are among the applies of others, with
\* the same content
SameApplies(ops, others) ==
    \A n \in DOMAIN ops :
        (ops[n].verb = "apply" /\ ops[n].kind # "Pod") =>
            \E m \in DOMAIN others :
                /\ others[m].verb = "apply"
                /\ others[m].kind = ops[n].kind
                /\ others[m].name = ops[n].name
                /\ others[m].val = ops[n].val

\* C17: when an in-cluster reconcile that ran to its end is followed at once by
\* another one, with no change to the NodeGroup, the Mesh or the objects in the
\* store in between, the second deletes no pod and applies no pod, and the two
\* apply the same other child objects with the same content.
C17_SecondReconcileChangesNothing ==
    [][(Completed(nres) /\ Completed(nres') /\ ClusterReconcile) =>
        /\ \A n \in DOMAIN nres'.ops :
              nres'.ops[n].kind = "Pod" => nres'.ops[n].verb \notin {"delete", "apply"}
        /\ SameApplies(nres'.ops, nres.ops)
        /\ SameApplies(nres.ops, nres'.ops)
    ]_vars

\* C18: for every replica index i of an in-cluster group, the config map applied
\* for replica i carries a config-checksum annotation equal to the checksum of
\* the node configuration stored in that config map, and equal to the
\* config-checksum annotation of the pod applied for replica i.
C18_ConfigMapChecksum ==
    (nres.done /\ ClusterReconcile) =>
        \A i \in Replicas(group) : \A n \in DOMAIN nres.ops :
            (nres.ops[n].verb = "apply" /\ nres.ops[n].kind = "ConfigMap"
                /\ nres.ops[n].name = PodOf(i)) =>
                /\ nres.ops[n].val.checksum = <<"sha256", nres.ops[n].val.data>>
                /\ \A p \in PodCalls(nres.ops, "apply", i) :
                      nres.ops[p].val.conf = nres.ops[n].val.checksum

-----------------------------------------------------------------------------
(* Properties of the naming functions *)

\* C19: two distinct NodeGroups of a Mesh have no child object in common: no
\* headless service, fronting service, pod, config map, certificate or compute
\* instance of one has the kind and the name of a child object of the other.
C19_ChildNamesDisjoint ==
    (naming.done /\ naming.group # naming.other) =>
        naming.children \cap naming.otherChildren = {}

\* the string s begins with the string p
StartsWith(s, p) == Len(s) >= Len(p) /\ \A k \in 1..Len(p) : s[k] = p[k]

\* C20: the base child name of (mesh, group) is the group name when the group
\* name starts with the mesh name and otherwise the mesh name, "-", the group
\* name; the name for a replica is the base name, "-", the index; the names are
\* a function of these three inputs alone.
C20_NamesFromInputs ==
    naming.done =>
        /\ naming.base = IF StartsWith(naming.group, naming.mesh) THEN naming.group
                         ELSE naming.mesh \o <<"-">> \o naming.group
        /\ naming.replica = naming.base \o <<"-", ToString(naming.index)>>

C20_Witness ==
    /\ naming.done /\ naming.index = 1
    /\ naming.mesh = <<"a">> /\ naming.group = <<"a", "-", "b">>
    /\ naming.base = <<"a", "-", "b">>
    /\ naming.replica = <<"a", "-", "b", "-", "1">>

-----------------------------------------------------------------------------
(* Properties of nodeconfig.New and of NodeGroupConfig.Merge *)

\* the lists with the elements of l in another order
Reorderings(l) == {[i \in DOMAIN l |-> l[o[i]]] : o \in Orders(DOMAIN l)}

MapOrders(opts) == Orders(DOMAIN opts.bootstrapServers)

\* C21: a call of nodeconfig.New leaves its inputs as they were: the list of
\* tunnel endpoints of the caller keeps its order, and the configuration of the
\* Mesh and the configuration of the group are not written by the merge.
C21_InputsUnchanged == render.calls > 0 => render.opts = render.given

\* two results of New are the same: both nothing, or the same bytes with the
\* same checksum
SameRender(r1, r2) ==
    /\ r1.err = r2.err
    /\ (r1.conf = <<>>) = (r2.conf = <<>>)
    /\ r1.conf # <<>> =>
          /\ ConfigRaw(r1.conf[1]) = ConfigRaw(r2.conf[1])
          /\ ConfigChecksum(r1.conf[1]) = ConfigChecksum(r2.conf[1])

\* C22: the list of tunnel endpoints in any order gives the same bytes and the
\* same checksum, and so does a second call with the same arguments.
C22_EndpointOrderIrrelevant ==
    render.calls > 0 =>
        /\ \A p \in Reorderings(render.given.wireGuardEndpoints) :
           \A o \in MapOrders(render.given) :
              SameRender(New([render.given EXCEPT !.wireGuardEndpoints = p], o),
                         render.first)
        /\ SameRender(render.out, render.first)

C22_Witness ==
    /\ render.calls = MaxRenders
    /\ render.given.wireGuardEndpoints = <<InternalEndpoint, <<"3", "4", ":", "9">>>>
    /\ render.first.conf # <<>>
    /\ render.out.conf[1].options.wireGuardEndpoints
          = <<"3", "4", ":", "9", ",">> \o InternalEndpoint

\* the `name=addr` strings of a map of bootstrap servers
EntriesOf(servers) == {name \o <<"=">> \o servers[name] : name \in DOMAIN servers}

C25_JoinServerRequired ==
    (render.calls > 0 /\ ~render.given.isBootstrap /\ render.given.joinServer = <<>>) =>
        /\ render.first.err # Nil /\ render.first.conf = <<>>
        /\ render.out.err # Nil /\ render.out.conf = <<>>

C25_Witness ==
    /\ render.calls > 0 /\ ~render.given.isBootstrap /\ render.given.joinServer = <<>>
    /\ render.given.group.configGroup = "p" /\ render.given.mesh.configGroups # <<>>
    /\ render.first.err = <<"join server is required for non bootstrap node groups">>
    /\ render.first.conf = <<>>

\* the group names a configuration that the Mesh does not have
UnknownConfigGroup(opts) ==
    /\ opts.group.configGroup # ""
    /\ \/ opts.mesh.configGroups = <<>>
       \/ opts.group.configGroup \notin DOMAIN opts.mesh.configGroups[1]

\* C26: for a group that names a configuration the Mesh does not have, or when
\* the Mesh has no configurations at all, New returns the error "config group
\* not found" and no configuration.
C26_ConfigGroupNotFound ==
    (render.calls > 0 /\ UnknownConfigGroup(render.given)) =>
        /\ render.first.err = <<"config group not found">> /\ render.first.conf = <<>>
        /\ render.out.err = <<"config group not found">> /\ render.out.conf = <<>>

C26_Witness ==
    /\ render.calls > 0
    /\ render.given.group.configGroup = "q" /\ render.given.mesh.configGroups # <<>>
    /\ render.given.isBootstrap
    /\ render.first.err = <<"config group not found">> /\ render.first.conf = <<>>

\* what a pointer points at, the zero value `zero` for the nil pointer
Deref(p, zero) == IF p = <<>> THEN zero ELSE p[1]

\* the value of the override when it is not empty, that of the base otherwise
Pick(override, base, empty) == IF override # empty THEN override ELSE base

\* r is nil when b and o are, and else holds the fields of o over those of b
MetricsRule(b, o, r) ==
    IF b = <<>> /\ o = <<>> THEN r = <<>>
    ELSE /\ r # <<>>
         /\ LET B == Deref(b, EmptyMetrics)
                O == Deref(o, EmptyMetrics)
            IN  /\ r[1].listenAddress = Pick(O.listenAddress, B.listenAddress, "")
                /\ r[1].path = Pick(O.path, B.path, "")

WebRTCRule(b, o, r) ==
    IF b = <<>> /\ o = <<>> THEN r = <<>>
    ELSE /\ r # <<>>
         /\ r[1].stunServers = Pick(Deref(o, EmptyWebRTC).stunServers,
                                    Deref(b, EmptyWebRTC).stunServers, <<>>)

MeshDNSRule(b, o, r) ==
    IF b = <<>> /\ o = <<>> THEN r = <<>>
    ELSE /\ r # <<>>
         /\ LET B == Deref(b, EmptyMeshDNS)
                O == Deref(o, EmptyMeshDNS)
            IN  /\ r[1].listenUDP = Pick(O.listenUDP, B.listenUDP, "")
                /\ r[1].listenTCP = Pick(O.listenTCP, B.listenTCP, "")

ServicesRule(b, o, r) ==
    IF b = <<>> /\ o = <<>> THEN r = <<>>
    ELSE /\ r # <<>>
         /\ LET B == Deref(b, EmptyServices)
                O == Deref(o, EmptyServices)
            IN  /\ MetricsRule(B.metrics, O.metrics, r[1].metrics)
                /\ WebRTCRule(B.webRTC, O.webRTC, r[1].webRTC)
                /\ MeshDNSRule(B.meshDNS, O.meshDNS, r[1].meshDNS)
                /\ r[1].enableLeaderProxy = (B.enableLeaderProxy \/ O.enableLeaderProxy)
                /\ r[1].enableMeshAPI = (B.enableMeshAPI \/ O.enableMeshAPI)
                /\ r[1].enablePeerDiscoveryAPI
                      = (B.enablePeerDiscoveryAPI \/ O.enablePeerDiscoveryAPI)

\* C24: base.Merge(override) returns a configuration whose log level is that of
\* the override when it has one and that of the base otherwise, whose flags are
\* those of the base or of the override, and whose services are merged the same
\* way, field by field; nil merged with nil is the default configuration.
C24_MergeRule ==
    merging.done =>
        /\ merging.out # <<>>
        /\ IF merging.base = <<>> /\ merging.override = <<>>
           THEN merging.out = <<[logLevel |-> "info", noIPv6 |-> FALSE, services |-> <<>>]>>
           ELSE LET B == Deref(merging.base, EmptyConfig)
                    O == Deref(merging.override, EmptyConfig)
                    R == merging.out[1]
                IN  /\ R.logLevel = Pick(O.logLevel, B.logLevel, "")
                    /\ R.noIPv6 = (B.noIPv6 \/ O.noIPv6)
                    /\ ServicesRule(B.services, O.services, R.services)

C24_Witness ==
    /\ merging.done
    /\ merging.base # <<>> /\ merging.override # <<>>
    /\ merging.base[1].logLevel = "" /\ merging.base[1].noIPv6
    /\ merging.override[1].logLevel = "debug" /\ ~merging.override[1].noIPv6
    /\ merging.base[1].services = <<[EmptyServices EXCEPT
            !.metrics = <<[listenAddress |-> ":9090", path |-> ""]>>]>>
    /\ merging.override[1].services = <<[EmptyServices EXCEPT
            !.metrics = <<[listenAddress |-> ":8080", path |-> "/metrics"]>>]>>
    /\ merging.out = <<[logLevel |-> "debug", noIPv6 |-> TRUE,
                        services |-> <<[EmptyServices EXCEPT
            !.metrics = <<[listenAddress |-> ":8080", path |-> "/metrics"]>>]>>]>>

-----------------------------------------------------------------------------
(* Properties of the configuration of the proxy *)

\* the port at the end of an address `host:port`
PortOf(address) == address[Len(address)]

ProxyReplicas == 0..(proxy.replicas - 1)

\* C27: the configuration of the proxy of a group with N replicas has one TCP
\* router, for gRPC with TLS passthrough, whose service lists the N replicas, and
\* N UDP routers, one for each replica: the service of the router of replica i
\* has one server, replica i at the tunnel port of replica i, and the ports of
\* the N services differ.
C27_ProxyRoutes ==
    proxy.done =>
        LET conf == proxy.out.conf
            grpc == conf.tcpServices[conf.tcpRouters[<<"grpc">>].service]
            udp(r) == conf.udpServices[conf.udpRouters[r].service]
        IN  /\ DOMAIN conf.tcpRouters = {<<"grpc">>}
            /\ conf.tcpRouters[<<"grpc">>].passthrough
            /\ Len(grpc) = proxy.replicas
            /\ {grpc[k] : k \in DOMAIN grpc}
                  = {HostPort(MeshNodeClusterFQDN(proxy.mesh, proxy.group, i),
                              DefaultGRPCPort) : i \in ProxyReplicas}
            /\ Cardinality(DOMAIN conf.udpRouters) = proxy.replicas
            /\ \A i \in ProxyReplicas : \E r \in DOMAIN conf.udpRouters :
                  udp(r) = <<HostPort(MeshNodeClusterFQDN(proxy.mesh, proxy.group, i),
                                      DefaultWireGuardPort + i)>>
            /\ \A r, s \in DOMAIN conf.udpRouters :
                  r # s => PortOf(udp(r)[1]) # PortOf(udp(s)[1])

-----------------------------------------------------------------------------
(* Properties of the objects built for a NodeGroup *)

OwnedBy(o, kind, name) ==
    \E k \in DOMAIN o.ownerReferences :
        o.ownerReferences[k].kind = kind /\ o.ownerReferences[k].name = name

\* C28: every object built for a NodeGroup, the certificates of its replicas,
\* its config maps, its services, the deployment of its proxy and its pods,
\* carries an owner reference to the NodeGroup.
C28_ChildrenOwnedByGroup ==
    owned.done => \A o \in owned.objects : OwnedBy(o, "NodeGroup", owned.group)

-----------------------------------------------------------------------------
(* Properties of the containers of a pod *)

\* the value of a field that is set, `default` when it is not
ValueOr(field, default) == IF field = <<>> THEN default ELSE field[1]

\* The security settings a container runs with: those of its own security
\* context, for a field that is not set those of the security context of the
\* pod, and the defaults of Kubernetes for the fields only a container has.
Effective(spec, container) ==
    LET own == ValueOr(container.securityContext,
                       SecurityContext(<<>>, <<>>, <<>>, {}, {}, <<>>, <<>>))
    IN  [privileged |-> ValueOr(own.privileged, FALSE),
         runAsNonRoot |-> ValueOr(own.runAsNonRoot,
                                  ValueOr(spec.securityContext.runAsNonRoot, FALSE)),
         add |-> own.add,
         drop |-> own.drop,
         readOnlyRootFilesystem |-> ValueOr(own.readOnlyRootFilesystem, FALSE),
         seccompProfile |-> ValueOr(own.seccompProfile,
                                    ValueOr(spec.securityContext.seccompProfile,
                                            "Unconfined"))]

\* C29: in a pod only the container "node" is privileged or has capabilities
\* added, and every additional container runs as non-root, with all
\* capabilities dropped, a read-only root filesystem and the default seccomp
\* profile, whatever its own security context says.
C29_SidecarsRestricted ==
    podspec.done =>
        \A k \in DOMAIN podspec.spec.containers :
            LET c == podspec.spec.containers[k]
                e == Effective(podspec.spec, c)
            IN  /\ (e.privileged \/ e.add # {}) => c.name = "node"
                /\ c.name # "node" =>
                      /\ e.runAsNonRoot
                      /\ "ALL" \in e.drop
                      /\ e.readOnlyRootFilesystem
                      /\ e.seccompProfile = "RuntimeDefault"

-----------------------------------------------------------------------------
(* Properties of the admission of a NodeGroup *)

\* C30: a NodeGroup that went through defaulting and validation has exactly one
\* of the in-cluster target and the cloud target; defaulting adds no in-cluster
\* target to a group that declares a cloud target; the reconciler meets no
\* group with both targets or with none.
C30_ExactlyOneTarget ==
    /\ admission.stage \in {"admitted", "reconciled"} =>
          admission.spec.cluster # admission.spec.googleCloud
    /\ (admission.stage \notin {"none", "submitted"}
          /\ admission.declared.googleCloud /\ ~admission.declared.cluster) =>
          ~admission.spec.cluster
    /\ admission.stage = "reconciled" => admission.branch # "none"

-----------------------------------------------------------------------------
(* Properties of create and update requests for a NodeGroup *)

\* an update changes a field that is immutable after creation
ImmutableChanged(old, new) ==
    old.replicas # new.replicas \/ old.persistent # new.persistent

\* C31: an update that changes the replica count or the persistence of a
\* NodeGroup is rejected, and teardown runs over the replica count under
\* which the children were created.
C31_ImmutableFieldsRejected ==
    /\ (hook.last.op = "update" /\ ImmutableChanged(hook.last.old[1], hook.last.new[1]))
          => hook.last.err # Nil
    /\ hook.torn # <<>> => Replicas(hook.torn[1]) = hook.torn[1].children

\* C34: a request of another identity than the operator that would store a
\* NodeGroup with the bootstrap annotation, or that modifies one, is rejected.
C34_BootstrapOnlyByOperator ==
    (/\ hook.last.op \in {"create", "update"}
     /\ hook.last.uid # OperatorUID
     /\ \/ hook.last.new[1].bootstrap
        \/ hook.last.op = "update" /\ hook.last.old[1].bootstrap)
    => hook.last.err # Nil

-----------------------------------------------------------------------------
(* Properties of create and update requests for a Mesh *)

\* the replica count and the persistence of a bootstrap section, absent or not
BootstrapReplicas(o) == IF o.cluster = <<>> THEN 0 ELSE o.cluster[1].replicas
BootstrapPersistent(o) == o.cluster # <<>> /\ o.cluster[1].persistent

C33_BootstrapConfigGroupExists ==
    meshHook.stored # <<>> =>
        \/ meshHook.stored[1].configGroup = ""
        \/ meshHook.stored[1].configGroup \in meshHook.stored[1].configGroups

-----------------------------------------------------------------------------
(* Properties of the set of objects built for a group *)

\* the objects of one kind among those built
OfKind(kind) == {o \in owned.objects : o.kind = kind}

\* C35: for a group of N replicas without exposure the objects built are
\* exactly N node certificates, one config map, one stateful workload and one
\* headless service, and no secret.
C35_UnexposedBootstrapObjects ==
    (owned.done /\ ~owned.exposed /\ owned.replicas >= 1) =>
        /\ Cardinality(OfKind("Certificate")) = owned.replicas
        /\ Cardinality(OfKind("ConfigMap")) = 1
        /\ Cardinality(OfKind("StatefulSet")) = 1
        /\ OfKind("Service") =
              {o \in owned.objects :
                  o.name = MeshNodeGroupHeadlessServiceName(owned.mesh, owned.group)
                  /\ o.kind = "Service"}
        /\ Cardinality(OfKind("Service")) = 1
        /\ OfKind("Secret") = {}

-----------------------------------------------------------------------------
(* Properties of Mesh.BootstrapGroups *)

\* C36: a Mesh without a Service yields one group and a Mesh with a Service
\* two; the first has no Service and carries the bootstrap annotation; the
\* second has the Service, does not carry the annotation and is rendered in
\* join mode; the labels and annotations of the Mesh are what they were before.
C36_BootstrapDescriptors ==
    bootstrap.done =>
        LET c == bootstrap.mesh
            groups == bootstrap.groups
        IN  /\ Len(groups) = IF c.service = <<>> THEN 1 ELSE 2
            /\ groups[1].service = <<>>
            /\ IsBootstrap(groups[1])
            /\ Len(groups) = 2 =>
                  /\ groups[2].service = c.service
                  /\ BootstrapNodeGroupAnnotation \notin DOMAIN groups[2].annotations
                  /\ ~IsBootstrap(groups[2])
            /\ bootstrap.after.labels = c.labels
            /\ bootstrap.after.annotations = c.annotations

-----------------------------------------------------------------------------
(* Properties of the external endpoints of an exposed group *)

\* the proxy listens on `port` at an entry point whose router leads to replica i
ProxyRoutesTo(port, i) ==
    \E r \in DOMAIN proxy.out.conf.udpRouters :
        LET router == proxy.out.conf.udpRouters[r]
            entry == router.entryPoints[1]
            servers == proxy.out.conf.udpServices[router.service]
            host == MeshNodeClusterFQDN(proxy.mesh, proxy.group, i)
        IN  /\ entry \in DOMAIN proxy.listen
            /\ proxy.listen[entry] = port
            /\ Len(servers) = 1
            /\ servers[1] \in {HostPort(host, DefaultWireGuardPort),
                                HostPort(host, DefaultWireGuardPort + i)}

\* C37: the port of the external endpoint that replica i advertises is a UDP
\* port of the fronting service, which hands it to a port the proxy listens on
\* and routes to replica i.
C37_AdvertisedPortServed ==
    proxy.done =>
        \A i \in ProxyReplicas :
            \E sp \in proxy.service.ports :
                /\ sp.protocol = "UDP"
                /\ sp.port = proxy.endpoints[i]
                /\ proxy.service.selector = "NodeGroupLBSelector"
                /\ ProxyRoutesTo(sp.targetPort, i)

-----------------------------------------------------------------------------
(* Properties of the finalizer of a NodeGroup *)

\* C38: while a compute instance or a pod of a NodeGroup exists and the group is
\* not being deleted, the group holds the teardown finalizer, also after an
\* invocation that created some replicas and failed on a later one.
C38_FinalizerWithChildren ==
    (/\ ~group.deleting
     /\ \E i \in AllReplicas : kids.instances[i].exists \/ kids.pods[i].exists)
    => group.finalizer

-----------------------------------------------------------------------------
(* Properties of the external-address lookup *)

\* C39: when the external-address lookup returns without error, the list is
\* not empty and every entry is a non-empty IP address, the first one, which
\* the callers take as the host, included.
C39_ExternalIPsUsable ==
    (lbLookup.done /\ lbLookup.err = Nil) =>
        /\ lbLookup.ips # <<>>
        /\ \A k \in 1..Len(lbLookup.ips) : lbLookup.ips[k] # "" /\ ParseAddrOK(lbLookup.ips[k])

=============================================================================
